---- MODULE Spec2Model ----
(***************************************************************************)
(* Colour extraction and pencil matching (CProton69/image-analyses-colour- *)
(* matcher): ColorAnalyzer (src/color_analyzer.py), ColorMatcher           *)
(* (src/color_matcher.py), PencilDatabase (src/pencil_database.py) and the *)
(* request flow of src/app.py.                                             *)
(*                                                                         *)
(* Numbers.  The code computes in IEEE doubles; the model computes in      *)
(* fixed point inside 32-bit integers: linear RGB and XYZ in units of      *)
(* 1/100000, the LAB helper f(t) in units of 1/1000, LAB coordinates and   *)
(* colour differences in units of 1/100 (so max_difference = 50 is 5000).  *)
(* Percentages and the spatial ratios are compared as exact fractions by   *)
(* cross-multiplication.                                                   *)
(***************************************************************************)
EXTENDS Integers, Sequences, FiniteSets, TLC

VARIABLES
    catalog,    \* PencilDatabase: brand -> its table (sequence of pencil rows)
    image,      \* the uploaded image
    op,         \* name of the last operation of the core that ran (in the
                \* request flow: the extraction)
    args,       \* its arguments
    result,     \* the value it returned
    raised,     \* whether it raised to its caller instead of returning
    pc,         \* position of the request in main() of app.py
    num_colors_requested, \* the sidebar slider
    image_id,   \* << >> for None, << id >> for a row id
    analysis_id,
    dominant_colors,
    all_matches,
    db,         \* the tables written through DatabaseManager
    calls       \* the calls main() has made, in order

coreVars == <<op, args, result, raised>>
flowVars == <<pc, num_colors_requested, image_id, analysis_id, dominant_colors,
              all_matches, db, calls>>
vars == <<catalog, image, coreVars, flowVars>>

(***************************************************************************)
(* Bounds of the model                                                     *)
(***************************************************************************)
\* longest brand table (rows taken from the head of the real table)
MaxTable == 3
\* largest max_matches argument
MaxCap == 2
\* most pixels of an image given to extract_dominant_colors
MaxPixels == 4
\* longest palette given to get_color_palette_matches
MaxPalette == 1
\* most pixels of an image with pixels at the limits of the brightness filter
MaxFilterPixels == 2
\* most create_user_session calls under way at once
MaxCallers == 2
\* latest reading of datetime.utcnow(): every row written reads a later time
MaxClock == 3
\* most pixels of an image whose extraction meets failing spatial analyses
MaxFaultPixels == 2
\* most pixels of an image uploaded in the request flow
MaxFlowPixels == 3
\* largest num_colors argument
MaxColors == 2
\* largest height and width of a label image given to the spatial analysis
MaxDim == 5

(***************************************************************************)
(* Generic helpers                                                         *)
(***************************************************************************)
Min(a, b) == IF a <= b THEN a ELSE b
Max(a, b) == IF a >= b THEN a ELSE b

\* Python's None
None == [none |-> TRUE]

\* Python's s[:n]
PySlice(s, n) ==
    IF n >= 0 THEN SubSeq(s, 1, Min(n, Len(s)))
    ELSE SubSeq(s, 1, Max(Len(s) + n, 0))

RECURSIVE SqrtSearch(_, _, _)
SqrtSearch(n, lo, hi) ==
    IF lo >= hi THEN lo
    ELSE LET mid == (lo + hi + 1) \div 2
         IN  IF mid * mid <= n THEN SqrtSearch(n, mid, hi)
             ELSE SqrtSearch(n, lo, mid - 1)

\* floor of the square root (np.sqrt)
ISqrt(n) == SqrtSearch(n, 0, 46340)

RECURSIVE CbrtSearch(_, _, _)
CbrtSearch(n, lo, hi) ==
    IF lo >= hi THEN lo
    ELSE LET mid == (lo + hi + 1) \div 2
         IN  IF mid * mid * mid <= n THEN CbrtSearch(n, mid, hi)
             ELSE CbrtSearch(n, lo, mid - 1)

\* floor of the cube root (x ** (1/3))
ICbrt(n) == CbrtSearch(n, 0, 1280)

(***************************************************************************)
(* ColorAnalyzer.rgb_to_lab and calculate_color_difference                 *)
(***************************************************************************)
\* ((c/255 + 0.055) / 1.055) ** 2.4 in units of 1/100000, for c = 0..255
GammaPower ==
   << 0, 30, 61, 91, 121, 152, 182, 212, 243, 273, 304, 335, 368, 402, 439, 478,
      518, 561, 605, 651, 700, 750, 802, 857, 913, 972, 1033, 1096, 1161, 1229, 1298, 1370,
      1444, 1521, 1600, 1681, 1764, 1850, 1938, 2029, 2122, 2217, 2315, 2416, 2519, 2624, 2732, 2843,
      2956, 3071, 3190, 3310, 3434, 3560, 3689, 3820, 3955, 4092, 4231, 4374, 4519, 4667, 4817, 4971,
      5127, 5286, 5448, 5613, 5781, 5951, 6125, 6301, 6480, 6663, 6848, 7036, 7227, 7421, 7619, 7819,
      8022, 8228, 8438, 8650, 8866, 9084, 9306, 9531, 9759, 9990, 10224, 10462, 10702, 10946, 11193, 11444,
      11697, 11954, 12214, 12477, 12744, 13014, 13287, 13563, 13843, 14126, 14413, 14703, 14996, 15293, 15593, 15896,
      16203, 16513, 16827, 17144, 17465, 17789, 18116, 18447, 18782, 19120, 19462, 19807, 20156, 20508, 20864, 21223,
      21586, 21953, 22323, 22697, 23074, 23455, 23840, 24228, 24620, 25016, 25415, 25818, 26225, 26636, 27050, 27468,
      27889, 28315, 28744, 29177, 29614, 30054, 30499, 30947, 31399, 31855, 32314, 32778, 33245, 33716, 34191, 34670,
      35153, 35640, 36131, 36625, 37124, 37626, 38133, 38643, 39157, 39676, 40198, 40724, 41254, 41789, 42327, 42869,
      43415, 43966, 44520, 45079, 45641, 46208, 46778, 47353, 47932, 48515, 49102, 49693, 50289, 50888, 51492, 52100,
      52712, 53328, 53948, 54572, 55201, 55834, 56471, 57112, 57758, 58408, 59062, 59720, 60383, 61050, 61721, 62396,
      63076, 63760, 64448, 65141, 65837, 66539, 67244, 67954, 68669, 69387, 70110, 70838, 71569, 72306, 73046, 73791,
      74540, 75294, 76052, 76815, 77582, 78354, 79130, 79910, 80695, 81485, 82279, 83077, 83880, 84687, 85499, 86316,
      87137, 87962, 88792, 89627, 90466, 91310, 92158, 93011, 93869, 94731, 95597, 96469, 97345, 98225, 99110, 100000 >>

\* line 116: np.where(rgb > 0.04045, ((rgb + 0.055) / 1.055) ** 2.4, rgb / 12.92)
GammaCorrect(c) ==
    IF c * 100000 > 4045 * 255
    THEN GammaPower[c + 1]
    ELSE (c * 10000000) \div 329460

\* line 131: np.where(xyz > 0.008856, xyz ** (1/3), 7.787 * xyz + 16/116)
\* t in units of 1/100000, the value in units of 1/1000
LabF(t) ==
    IF t * 10 > 8856
    THEN ICbrt(t * 10000)
    ELSE (7787 * t + 13793103) \div 100000

rgb_to_lab(rgb) ==
    LET r == GammaCorrect(rgb[1])
        g == GammaCorrect(rgb[2])
        b == GammaCorrect(rgb[3])
        \* xyz_matrix, coefficients in units of 1/10000
        x == (4125 * r + 3576 * g + 1804 * b) \div 10000
        y == (2127 * r + 7152 * g + 722 * b) \div 10000
        z == (193 * r + 1192 * g + 9503 * b) \div 10000
        \* D65 illuminant (0.95047, 1.00000, 1.08883)
        xn == x + (x * 4953) \div 95047
        yn == y
        zn == z - (z * 8883) \div 108883
        fx == LabF(xn)
        fy == LabF(yn)
        fz == LabF(zn)
    IN  << (116 * fy - 16000) \div 10, 50 * (fx - fy), 20 * (fy - fz) >>

\* line 150: np.sqrt(np.sum((lab1 - lab2) ** 2))
LabDistance(lab1, lab2) ==
    ISqrt((lab1[1] - lab2[1]) * (lab1[1] - lab2[1])
        + (lab1[2] - lab2[2]) * (lab1[2] - lab2[2])
        + (lab1[3] - lab2[3]) * (lab1[3] - lab2[3]))

\* faulty variant: the difference is cut to whole units (int(delta_e))
DeltaEWholeUnits(color1_rgb, color2_rgb) ==
    (LabDistance(rgb_to_lab(color1_rgb), rgb_to_lab(color2_rgb)) \div 100) * 100

\* Delta E (CIE76); the RGB fallback of lines 153-155 needs rgb_to_lab to
\* raise, which it does not for a triple of integers
DeltaE(color1_rgb, color2_rgb) ==
    LabDistance(rgb_to_lab(color1_rgb), rgb_to_lab(color2_rgb))

(***************************************************************************)
(* ColorAnalyzer: where a cluster lies in the image                        *)
(***************************************************************************)
\* a percentage 100 * num / den, kept as the pair <<100 * num, den>>
Pct(num, den) == << 100 * num, den >>
PctZero == << 0, 1 >>

\* p > n and p <= n for a percentage p and an integer n
PctGreater(p, n) == p[1] > n * p[2]
PctAtMost(p, n) == p[1] <= n * p[2]

\* p < q for two percentages
PctLess(p, q) == p[1] * q[2] < q[1] * p[2]
PctEqual(p, q) == p[1] * q[2] = q[1] * p[2]

RegionTags == << "top", "middle", "bottom", "left", "center", "right" >>

\* {'top': 0, 'middle': 0, 'bottom': 0, 'left': 0, 'center': 0, 'right': 0}
ZeroCoverage ==
    [top |-> PctZero, middle |-> PctZero, bottom |-> PctZero,
     left |-> PctZero, center |-> PctZero, right |-> PctZero]

\* np.where(cluster_mask): the coordinates <<y, x>> of the pixels of the
\* cluster, in row-major order (labels is the flat label array)
RECURSIVE ClusterCoords(_, _, _, _)
ClusterCoords(labels, width, cluster_id, i) ==
    IF i > Len(labels) THEN << >>
    ELSE (IF labels[i] = cluster_id
          THEN << << (i - 1) \div width, (i - 1) % width >> >>
          ELSE << >>)
         \o ClusterCoords(labels, width, cluster_id, i + 1)

RECURSIVE SumOf(_, _)
SumOf(vals, i) == IF i > Len(vals) THEN 0 ELSE vals[i] + SumOf(vals, i + 1)

RECURSIVE MaxOf(_, _)
MaxOf(vals, i) ==
    IF i = Len(vals) THEN vals[i] ELSE Max(vals[i], MaxOf(vals, i + 1))

RECURSIVE MinOf(_, _)
MinOf(vals, i) ==
    IF i = Len(vals) THEN vals[i] ELSE Min(vals[i], MinOf(vals, i + 1))

Squares(vals) == [i \in 1..Len(vals) |-> vals[i] * vals[i]]

\* (np.max(c) - np.min(c)) / size > 0.7 and < 0.3
SpreadAbove07(coords, size) == 10 * (MaxOf(coords, 1) - MinOf(coords, 1)) > 7 * size
SpreadBelow03(coords, size) == 10 * (MaxOf(coords, 1) - MinOf(coords, 1)) < 3 * size

\* np.std(c) / size < 0.15: with n values, var = (n * sum c^2 - (sum c)^2) / n^2
\* and the test is var < 0.0225 * size^2
StdBelow015(coords, size) ==
    LET n == Len(coords)
        s == SumOf(coords, 1)
    IN  400 * (n * SumOf(Squares(coords), 1) - s * s) < 9 * size * size * n * n

\* faulty variant: the test for localized comes before the test for concentrated
classify_distribution_localized_first(y_coords, x_coords, height, width) ==
    IF Len(y_coords) = 0 THEN "none"
    ELSE IF SpreadAbove07(y_coords, height) /\ SpreadAbove07(x_coords, width)
         THEN "widespread"
    ELSE IF SpreadBelow03(y_coords, height) \/ SpreadBelow03(x_coords, width)
         THEN "localized"
    ELSE IF StdBelow015(y_coords, height) /\ StdBelow015(x_coords, width)
         THEN "concentrated"
    ELSE "scattered"

\* lines 217-237
classify_distribution(y_coords, x_coords, height, width) ==
    IF Len(y_coords) = 0 THEN "none"
    ELSE IF SpreadAbove07(y_coords, height) /\ SpreadAbove07(x_coords, width)
         THEN "widespread"
    ELSE IF StdBelow015(y_coords, height) /\ StdBelow015(x_coords, width)
         THEN "concentrated"
    ELSE IF SpreadBelow03(y_coords, height) \/ SpreadBelow03(x_coords, width)
         THEN "localized"
    ELSE "scattered"

\* faulty variant: the lower limit of a third is exclusive
CountThirdAboveLimit(coords, lo, hi) ==
    Cardinality({ i \in 1..Len(coords) : lo < 3 * coords[i] /\ 3 * coords[i] < hi })

\* how many coordinates c have lo <= 3 * c < hi, that is lo/3 <= c < hi/3
CountThird(coords, lo, hi) ==
    Cardinality({ i \in 1..Len(coords) : lo <= 3 * coords[i] /\ 3 * coords[i] < hi })

analyze_regional_coverage(y_coords, x_coords, height, width) ==
    IF Len(y_coords) = 0 THEN ZeroCoverage
    ELSE LET total_pixels == Len(y_coords)
         IN  [top |-> Pct(CountThird(y_coords, 0, height), total_pixels),
              middle |-> Pct(CountThird(y_coords, height, 2 * height), total_pixels),
              bottom |-> Pct(CountThird(y_coords, 2 * height, 3 * height), total_pixels),
              left |-> Pct(CountThird(x_coords, 0, width), total_pixels),
              center |-> Pct(CountThird(x_coords, width, 2 * width), total_pixels),
              right |-> Pct(CountThird(x_coords, 2 * width, 3 * width), total_pixels)]

\* faulty variant: a coverage of exactly 20 counts too
TagsAtLeast20(coverage, tags) ==
    SelectSeq(tags, LAMBDA t : coverage[t][1] >= 20 * coverage[t][2])

\* the tags among `tags`, in that order, whose coverage is > 20
TagsAbove20(coverage, tags) == SelectSeq(tags, LAMBDA t : PctGreater(coverage[t], 20))

find_primary_areas(coverage) ==
    LET vertical == TagsAbove20(coverage, << "top", "middle", "bottom" >>)
        primary == IF Len(vertical) = 0
                   THEN TagsAbove20(coverage, << "left", "center", "right" >>)
                   ELSE vertical
    IN  IF primary # << >> THEN primary ELSE << "scattered" >>

area_descriptions(area) ==
    CASE area = "top" -> "Upper portion"
      [] area = "middle" -> "Middle section"
      [] area = "bottom" -> "Lower portion"
      [] area = "left" -> "Left side"
      [] area = "center" -> "Center area"
      [] area = "right" -> "Right side"

Contains(seq, x) == \E i \in 1..Len(seq) : seq[i] = x

\* faulty variant: the two-edge combinations are not collapsed
describe_regions_uncollapsed(coverage, primary_areas) ==
    IF primary_areas = << >> \/ primary_areas = << "scattered" >>
    THEN << "Throughout the image" >>
    ELSE [i \in 1..Len(primary_areas) |-> area_descriptions(primary_areas[i])]

\* faulty variant: top and bottom collapse only when nothing else is primary
describe_regions_exact_pair(coverage, primary_areas) ==
    IF primary_areas = << >> \/ primary_areas = << "scattered" >>
    THEN << "Throughout the image" >>
    ELSE IF primary_areas = << "top", "bottom" >> THEN << "Top and bottom edges" >>
    ELSE IF primary_areas = << "left", "right" >> THEN << "Left and right sides" >>
    ELSE [i \in 1..Len(primary_areas) |-> area_descriptions(primary_areas[i])]

\* lines 294-323
describe_regions(coverage, primary_areas) ==
    IF primary_areas = << >> \/ primary_areas = << "scattered" >>
    THEN << "Throughout the image" >>
    ELSE LET known == SelectSeq(primary_areas,
                                LAMBDA a : Contains(RegionTags, a))
             mapped == [i \in 1..Len(known) |-> area_descriptions(known[i])]
             regions ==
                 IF Contains(primary_areas, "top") /\ Contains(primary_areas, "bottom")
                 THEN IF ~Contains(mapped, "Top and bottom edges")
                      THEN << "Top and bottom edges" >> ELSE mapped
                 ELSE IF Contains(primary_areas, "left") /\ Contains(primary_areas, "right")
                 THEN IF ~Contains(mapped, "Left and right sides")
                      THEN << "Left and right sides" >> ELSE mapped
                 ELSE mapped
         IN  IF regions # << >> THEN regions ELSE << "Various areas" >>

\* the `except Exception` value of _analyze_color_location
AnalysisUnavailable ==
    [regions |-> << "Analysis unavailable" >>, distribution |-> "unknown",
     primary_areas |-> << >>, coverage |-> ZeroCoverage]

\* the value for a cluster without a pixel
NotFound ==
    [regions |-> << "Not found" >>, distribution |-> "scattered",
     primary_areas |-> << >>, coverage |-> ZeroCoverage]

\* faulty variant: the cluster without a pixel is analysed like any other
ClusterNeverEmpty(coords) == FALSE

\* line 179: not np.any(cluster_mask)
ClusterIsEmpty(coords) == Len(coords) = 0

\* an exception that leaves the analysis
AnalysisRaised == [raised |-> TRUE]

\* the step of lines 171-207 that raises, "none" when none does:
\* labels.reshape(height, width) raises when the sizes do not fit; `fault`
\* stands for any other exception raised inside the body
AnalysisFailedStep(height, width, labels, fault) ==
    IF Len(labels) # height * width THEN "reshape"
    ELSE IF fault THEN "body"
    ELSE "none"

\* faulty variant: the analysis has no handler of its own
AnalysisCatchesNothing(step) == FALSE

\* lines 170 and 209-215: the try block spans the whole body and its handler
\* takes every Exception
AnalysisCatches(step) == step \in {"reshape", "body"}

analyze_color_location(height, width, labels, cluster_id, fault) ==
    IF AnalysisFailedStep(height, width, labels, fault) # "none"
    THEN IF AnalysisCatches(AnalysisFailedStep(height, width, labels, fault))
         THEN AnalysisUnavailable
         ELSE AnalysisRaised
    ELSE LET coords == ClusterCoords(labels, width, cluster_id, 1)
             y_coords == [i \in 1..Len(coords) |-> coords[i][1]]
             x_coords == [i \in 1..Len(coords) |-> coords[i][2]]
         IN  IF ClusterIsEmpty(coords) THEN NotFound
             ELSE LET coverage ==
                          analyze_regional_coverage(y_coords, x_coords, height, width)
                      primary_areas == find_primary_areas(coverage)
                  IN  [regions |-> describe_regions(coverage, primary_areas),
                       distribution |->
                           classify_distribution(y_coords, x_coords, height, width),
                       primary_areas |-> primary_areas,
                       coverage |-> coverage]

(***************************************************************************)
(* ColorAnalyzer.extract_dominant_colors                                   *)
(*                                                                         *)
(* An image is [mode, size = <<width, height>>, pixels, readable]: pixels  *)
(* is the RGB content in row-major order; an image that is not readable    *)
(* (truncated or corrupt data) raises at the first step that touches its   *)
(* pixels.  Pillow and scikit-learn are outside the repository: resize     *)
(* returns some image of the new size, and KMeans returns k centres, each  *)
(* the mean of two fitted pixels (kept doubled, in halves of a channel     *)
(* unit), with every pixel labelled by its nearest centre, the lowest      *)
(* index winning a tie; fit raises when it is given fewer than k pixels.   *)
(***************************************************************************)
\* pixel colours of the model's images: mean brightness exactly 20 (filtered
\* out) and two of brightness 85
PixelColors == { <<20, 20, 20>>, <<255, 0, 0>>, <<0, 0, 255>> }

Width(img) == img.size[1]
Height(img) == img.size[2]

\* max_size=300
DefaultMaxSize == 300

\* line 31
NeedsResize(img, max_size) == Max(Width(img), Height(img)) > max_size

\* lines 32-33: (int(w * ratio), int(h * ratio)) with ratio = max_size / max(size)
NewSize(img, max_size) ==
    LET longer == Max(Width(img), Height(img))
    IN  << (Width(img) * max_size) \div longer,
           (Height(img) * max_size) \div longer >>

\* the step of lines 24-63 that raises, "none" when none does
FailedStep(img, num_colors, max_size, fit_pixels) ==
    IF img.mode # "RGB" /\ ~img.readable THEN "convert"
    ELSE IF NeedsResize(img, max_size)
            /\ (~img.readable
                \/ NewSize(img, max_size)[1] = 0
                \/ NewSize(img, max_size)[2] = 0)
         THEN "resize"
    ELSE IF ~img.readable THEN "array"
    ELSE IF Len(fit_pixels) < num_colors THEN "kmeans"
    ELSE "none"

\* faulty variant: the handler does not cover the clustering
ExtractCatchesBeforeFit(step) == step # "kmeans"

\* lines 24 and 104-106: the try block spans the whole body and its handler
\* takes every Exception, whatever the step that raised it
ExtractCatches(step) == step \in {"convert", "resize", "array", "kmeans"}

\* an exception leaves extract_dominant_colors
extract_raises(img, num_colors, max_size, fit_pixels) ==
    LET step == FailedStep(img, num_colors, max_size, fit_pixels)
    IN  step # "none" /\ ~ExtractCatches(step)

\* lines 26-43: the image the pixels are read from
Prepared(img, max_size, resampled) ==
    IF NeedsResize(img, max_size)
    THEN [mode |-> "RGB", size |-> NewSize(img, max_size),
          pixels |-> resampled, readable |-> img.readable]
    ELSE [img EXCEPT !.mode = "RGB"]

\* faulty variant: the pixels of brightness 20 and 235 are kept too
BrightnessKeptInclusive(pixel) ==
    LET total == pixel[1] + pixel[2] + pixel[3]
    IN  total >= 3 * 20 /\ total <= 3 * 235

\* lines 53-54: 20 < mean of the channels < 235
BrightnessKept(pixel) ==
    LET total == pixel[1] + pixel[2] + pixel[3]
    IN  total > 3 * 20 /\ total < 3 * 235

\* lines 55-59
FilteredPixels(pixels, num_colors) ==
    LET filtered_pixels == SelectSeq(pixels, BrightnessKept)
    IN  IF Len(filtered_pixels) < num_colors THEN pixels ELSE filtered_pixels

Dist2(pixel, center2) ==
    (2 * pixel[1] - center2[1]) * (2 * pixel[1] - center2[1])
    + (2 * pixel[2] - center2[2]) * (2 * pixel[2] - center2[2])
    + (2 * pixel[3] - center2[3]) * (2 * pixel[3] - center2[3])

\* the cluster id (0-based) of the centre nearest to the pixel
NearestCenter(centers2, pixel) ==
    (CHOOSE i \in 1..Len(centers2) :
        /\ \A j \in 1..Len(centers2) :
              Dist2(pixel, centers2[i]) <= Dist2(pixel, centers2[j])
        /\ \A j \in 1..(i - 1) :
              Dist2(pixel, centers2[j]) > Dist2(pixel, centers2[i])) - 1

\* kmeans.predict / kmeans.labels_
PredictLabels(centers2, pixels) ==
    [i \in 1..Len(pixels) |-> NearestCenter(centers2, pixels[i])]

\* line 66: cluster_centers_.astype(int) drops the fraction
CenterAsInt(center2) ==
    << center2[1] \div 2, center2[2] \div 2, center2[3] \div 2 >>

CountLabel(labels, i) == Cardinality({ n \in 1..Len(labels) : labels[n] = i })

\* faulty variant: the percentage counts the labels of all pixels
color_entry_all_pixels(img, centers2, filtered_labels, all_labels, i, faults) ==
    [rgb |-> CenterAsInt(centers2[i + 1]),
     percentage |-> Pct(CountLabel(all_labels, i), Len(all_labels)),
     location_info |->
         analyze_color_location(Height(img), Width(img), all_labels, i,
                                i \in faults)]

\* faulty variant: the location is analysed on the labels of the fitted pixels
color_entry_fitted_location(img, centers2, filtered_labels, all_labels, i, faults) ==
    [rgb |-> CenterAsInt(centers2[i + 1]),
     percentage |-> Pct(CountLabel(filtered_labels, i), Len(filtered_labels)),
     location_info |->
         analyze_color_location(Height(img), Width(img), filtered_labels, i,
                                i \in faults)]

\* lines 76-97: the entry of cluster i (of its fields, hex, hsv and brightness
\* are functions of rgb alone and are left out)
color_entry(img, centers2, filtered_labels, all_labels, i, faults) ==
    [rgb |-> CenterAsInt(centers2[i + 1]),
     percentage |-> Pct(CountLabel(filtered_labels, i), Len(filtered_labels)),
     location_info |->
         analyze_color_location(Height(img), Width(img), all_labels, i,
                                i \in faults)]

\* faulty variant: an entry goes before the first entry that is not smaller (ascending)
InsertByPercentageAscending(sorted, e) ==
    LET before == SelectSeq(sorted, LAMBDA x : PctLess(x.percentage, e.percentage))
    IN  before \o << e >> \o SubSeq(sorted, Len(before) + 1, Len(sorted))

\* an entry goes after every entry whose percentage is >= its own (the sort
\* is stable, also with reverse=True)
InsertByPercentage(sorted, e) ==
    LET before == SelectSeq(sorted, LAMBDA x : ~PctLess(x.percentage, e.percentage))
    IN  before \o << e >> \o SubSeq(sorted, Len(before) + 1, Len(sorted))

RECURSIVE SortByPercentage(_, _, _)
\* line 100: color_info.sort(key=lambda x: x['percentage'], reverse=True)
SortByPercentage(color_info, i, sorted) ==
    IF i > Len(color_info) THEN sorted
    ELSE SortByPercentage(color_info, i + 1, InsertByPercentage(sorted, color_info[i]))

\* `resampled` is what resize returned and `centers2` what KMeans found; both
\* are read only when the step that produces them ran; `faults` are the
\* clusters in whose spatial analysis a step raises.  An exception that left
\* the analysis would end the loop of lines 76-97 in the handler of lines
\* 104-106
extract_dominant_colors(img, num_colors, max_size, resampled, centers2, faults) ==
    LET prepared == Prepared(img, max_size, resampled)
        pixels == prepared.pixels
        fit_pixels == FilteredPixels(pixels, num_colors)
    IN  IF FailedStep(img, num_colors, max_size, fit_pixels) # "none"
        THEN << >>
        ELSE LET all_labels == PredictLabels(centers2, pixels)
                 filtered_labels == PredictLabels(centers2, fit_pixels)
                 color_info ==
                     [i \in 1..num_colors |->
                         color_entry(prepared, centers2, filtered_labels,
                                     all_labels, i - 1, faults)]
             IN  IF \E i \in 1..num_colors :
                        color_info[i].location_info = AnalysisRaised
                 THEN << >>
                 ELSE SortByPercentage(color_info, 1, << >>)

(***************************************************************************)
(* PencilDatabase                                                          *)
(***************************************************************************)
\* brand labels in the order get_all_pencils concatenates the tables
BrandOrder ==
    << "Prismacolor", "Faber Castell", "Caran d'Ache",
       "Derwent", "Staedtler", "Koh-I-Noor" >>

Brands == { BrandOrder[i] : i \in 1..Len(BrandOrder) }

Row(n, c, rgb) == [name |-> n, code |-> c, rgb |-> rgb]

\* the head of _create_prismacolor_database
PrismacolorRows ==
    << Row("Crimson Red", "PC924", <<220, 20, 60>>),
       Row("Scarlet Lake", "PC923", <<255, 36, 0>>),
       Row("True Red", "PC922", <<237, 28, 36>>),
       Row("Magenta", "PC930", <<255, 0, 255>>) >>

\* the head of _create_faber_castell_database
FaberCastellRows ==
    << Row("Alizarin Crimson", "FC226", <<227, 38, 54>>),
       Row("Deep Red", "FC223", <<196, 30, 58>>),
       Row("Middle Cadmium Red", "FC217", <<231, 65, 69>>),
       Row("Pale Geranium Lake", "FC121", <<239, 100, 108>>) >>

\* the head of _create_caran_dache_database
CaranDacheRows ==
    << Row("Scarlet", "070", <<237, 28, 36>>),
       Row("Vermillion", "060", <<227, 66, 52>>),
       Row("Light Cadmium Red", "061", <<255, 99, 71>>),
       Row("Permanent Red", "065", <<220, 20, 60>>) >>

\* the head of _create_derwent_database
DerwentRows ==
    << Row("Crimson Lake", "20", <<220, 20, 60>>),
       Row("Deep Cadmium", "15", <<227, 38, 54>>),
       Row("Geranium Lake", "17", <<231, 84, 128>>),
       Row("Rose Pink", "23", <<255, 182, 193>>) >>

\* the head of _create_staedtler_database
StaedtlerRows ==
    << Row("Carmine", "29", <<227, 38, 54>>),
       Row("Scarlet Red", "28", <<237, 28, 36>>),
       Row("Red", "21", <<208, 2, 27>>),
       Row("Pink", "23", <<255, 182, 193>>) >>

\* the head of _create_koh_i_noor_database
KohINoorRows ==
    << Row("Carmine", "3720", <<220, 20, 60>>),
       Row("Scarlet", "3700", <<237, 28, 36>>),
       Row("Vermillion", "3710", <<227, 66, 52>>),
       Row("Pink", "3730", <<255, 182, 193>>) >>

\* target colours of the matcher calls
Targets == { <<255, 0, 0>>, <<220, 20, 60>>, <<0, 0, 0>> }

BrandRows(b) ==
    CASE b = "Prismacolor" -> PrismacolorRows
      [] b = "Faber Castell" -> FaberCastellRows
      [] b = "Caran d'Ache" -> CaranDacheRows
      [] b = "Derwent" -> DerwentRows
      [] b = "Staedtler" -> StaedtlerRows
      [] b = "Koh-I-Noor" -> KohINoorRows

\* the colours extraction can return for the model's images
PaletteColors ==
    { CenterAsInt(<< a[1] + b[1], a[2] + b[2], a[3] + b[3] >>) :
        a, b \in PixelColors }

\* the colours get_complementary_colors looks up for the targets
ComplementColors == { <<0, 255, 255>>, <<19, 220, 180>>, <<0, 0, 0>> }

CatalogColors ==
    { BrandRows(b)[i].rgb : b \in Brands, i \in 1..4 }

\* DeltaE evaluated once per pair of colours the model uses (TLC evaluates a
\* function expression at each application; comparing it tabulates it)
DeltaETable ==
    LET table == [pair \in (Targets \cup PaletteColors \cup ComplementColors)
                                \X CatalogColors |->
                     DeltaE(pair[1], pair[2])]
    IN  IF table = table THEN table ELSE table

calculate_color_difference(color1_rgb, color2_rgb) ==
    IF <<color1_rgb, color2_rgb>> \in DOMAIN DeltaETable
    THEN DeltaETable[<<color1_rgb, color2_rgb>>]
    ELSE DeltaE(color1_rgb, color2_rgb)

\* PencilDatabase.__init__, over catalogs cut down to the model's size: the
\* brands in `present` hold the first n rows of their table, the others none
PencilDatabase(present, n) ==
    [b \in Brands |->
        IF b \in present
        THEN SubSeq(BrandRows(b), 1, Min(n, Len(BrandRows(b))))
        ELSE << >>]

\* df = table.copy(); df['brand'] = b
WithBrand(table, b) ==
    [i \in 1..Len(table) |->
        [name |-> table[i].name, code |-> table[i].code,
         rgb |-> table[i].rgb, brand |-> b]]

\* get_prismacolor_pencils ... get_koh_i_noor_pencils
get_brand_pencils(pencil_db, b) == WithBrand(pencil_db[b], b)

RECURSIVE ConcatBrands(_, _)
ConcatBrands(pencil_db, i) ==
    IF i > Len(BrandOrder) THEN << >>
    ELSE get_brand_pencils(pencil_db, BrandOrder[i]) \o ConcatBrands(pencil_db, i + 1)

\* pd.concat(all_dfs, ignore_index=True)
get_all_pencils(pencil_db) == ConcatBrands(pencil_db, 1)

(***************************************************************************)
(* ColorMatcher                                                            *)
(***************************************************************************)
\* max_difference=50, in units of 1/100
DefaultMaxDifference == 5000

match_info(pencil, target_rgb, color_diff) ==
    [brand |-> pencil.brand, name |-> pencil.name, code |-> pencil.code,
     pencil_rgb |-> pencil.rgb, target_rgb |-> target_rgb,
     color_difference |-> color_diff]

\* faulty variant: the cutoff is exclusive
WithinThresholdStrict(color_diff, max_difference) == color_diff < max_difference

\* line 35: the threshold test
WithinThreshold(color_diff, max_difference) == color_diff <= max_difference

RECURSIVE CollectMatches(_, _, _, _)
\* lines 26-44: one match_info per row within the threshold, in catalog order
CollectMatches(pencils, i, target_rgb, max_difference) ==
    IF i > Len(pencils) THEN << >>
    ELSE LET color_diff == calculate_color_difference(target_rgb, pencils[i].rgb)
             rest == CollectMatches(pencils, i + 1, target_rgb, max_difference)
         IN  IF WithinThreshold(color_diff, max_difference)
             THEN << match_info(pencils[i], target_rgb, color_diff) >> \o rest
             ELSE rest

RECURSIVE InsertByDifference(_, _)
\* m goes after every element whose key is <= its own (list.sort is stable)
InsertByDifference(sorted, m) ==
    IF sorted = << >> THEN << m >>
    ELSE IF m.color_difference < Head(sorted).color_difference
         THEN << m >> \o sorted
         ELSE << Head(sorted) >> \o InsertByDifference(Tail(sorted), m)

RECURSIVE SortFrom(_, _, _)
SortFrom(matches, i, sorted) ==
    IF i > Len(matches) THEN sorted
    ELSE SortFrom(matches, i + 1, InsertByDifference(sorted, matches[i]))

\* faulty variant: the sort is left out
SortSkipped(matches) == matches

\* line 47: matches.sort(key=lambda x: x['color_difference'])
SortByDifference(matches) == SortFrom(matches, 1, << >>)

OfBrand(matches, b) == SelectSeq(matches, LAMBDA m : m.brand = b)

\* faulty variant: the slice keeps one entry too many
BrandMatchesOffByOne(matches, b, max_matches) ==
    PySlice(OfBrand(matches, b), max_matches + 1)

\* lines 50-51: [m for m in matches if m['brand'] == b][:max_matches]
BrandMatches(matches, b, max_matches) == PySlice(OfBrand(matches, b), max_matches)

\* line 53: the brands the returned list is built from
ReturnedBrands == << "Prismacolor", "Faber Castell" >>

RECURSIVE ConcatBrandMatches(_, _, _)
ConcatBrandMatches(matches, i, max_matches) ==
    IF i > Len(ReturnedBrands) THEN << >>
    ELSE BrandMatches(matches, ReturnedBrands[i], max_matches)
         \o ConcatBrandMatches(matches, i + 1, max_matches)

find_matches(pencil_db, target_rgb, max_matches, max_difference) ==
    LET all_pencils == get_all_pencils(pencil_db)
        matches == SortByDifference(
                       CollectMatches(all_pencils, 1, target_rgb, max_difference))
    IN  ConcatBrandMatches(matches, 1, max_matches)

\* get_color_palette_matches: the dictionary from the index of a colour to the
\* matches of that colour
get_color_palette_matches(pencil_db, color_palette, max_matches_per_color) ==
    [i \in 0..(Len(color_palette) - 1) |->
        find_matches(pencil_db, color_palette[i + 1], max_matches_per_color,
                     DefaultMaxDifference)]

\* colorsys.rgb_to_hsv(r/255, g/255, b/255), exactly: h6 is six times the
\* hue and s the saturation, both as <<numerator, denominator>>, v is the
\* value in units of 1/255
rgb_to_hsv(rgb) ==
    LET r == rgb[1]
        g == rgb[2]
        b == rgb[3]
        maxc == Max(r, Max(g, b))
        minc == Min(r, Min(g, b))
        d == maxc - minc
    IN  IF minc = maxc THEN [h6 |-> <<0, 1>>, s |-> <<0, 1>>, v |-> maxc]
        ELSE [h6 |-> IF r = maxc THEN << (g - b) % (6 * d), d >>
                     ELSE IF g = maxc THEN << (2 * d + b - r) % (6 * d), d >>
                     ELSE << (4 * d + r - g) % (6 * d), d >>,
              s |-> << d, maxc >>,
              v |-> maxc]

\* comp_h = (h + 0.5) % 1.0
RotateHue(h6) == << (h6[1] + 3 * h6[2]) % (6 * h6[2]), h6[2] >>

\* colorsys.hsv_to_rgb(h, s, v), exactly: the three channels in units of
\* 1/255, as <<numerator, denominator>>
hsv_to_rgb(h6, s, v) ==
    IF s[1] = 0 THEN << <<v, 1>>, <<v, 1>>, <<v, 1>> >>
    ELSE LET i == h6[1] \div h6[2]
             fn == h6[1] % h6[2]
             fd == h6[2]
             vv == << v, 1 >>
             pp == << v * (s[2] - s[1]), s[2] >>
             qq == << v * (s[2] * fd - s[1] * fn), s[2] * fd >>
             tt == << v * (s[2] * fd - s[1] * (fd - fn)), s[2] * fd >>
         IN  CASE i % 6 = 0 -> << vv, tt, pp >>
               [] i % 6 = 1 -> << qq, vv, pp >>
               [] i % 6 = 2 -> << pp, vv, tt >>
               [] i % 6 = 3 -> << pp, qq, vv >>
               [] i % 6 = 4 -> << tt, pp, vv >>
               [] i % 6 = 5 -> << vv, pp, qq >>

\* the channels of the model's targets whose product comp * 255 is a whole
\* number that the double arithmetic of colorsys misses from below
\* (220, 20, 60) gives 19.999999999999982, 220.0, 180.00000000000014
DoubleBelowInteger == { << <<220, 20, 60>>, 1 >> }

\* lines 153-165: int(comp * 255) cuts the fraction off
complementary_rgb(target_rgb) ==
    LET hsv == rgb_to_hsv(target_rgb)
        comp == hsv_to_rgb(RotateHue(hsv.h6), hsv.s, hsv.v)
    IN  [channel \in 1..3 |->
            IF << target_rgb, channel >> \in DoubleBelowInteger
               /\ comp[channel][1] % comp[channel][2] = 0
            THEN comp[channel][1] \div comp[channel][2] - 1
            ELSE comp[channel][1] \div comp[channel][2]]

\* find_matches(complementary_rgb, max_matches=3)
ComplementMaxMatches == 3

get_complementary_colors(pencil_db, target_rgb) ==
    find_matches(pencil_db, complementary_rgb(target_rgb), ComplementMaxMatches,
                 DefaultMaxDifference)

\* the brand tables find_best_match reads
ScannedBrands(brand) ==
    IF brand \in { "Prismacolor", "Faber Castell" } THEN { brand } ELSE Brands

\* faulty variant: an accessor writes the brand column into the stored table
StoredWithoutCopy(table, b) == WithBrand(table, b)

\* pencil_database.py lines 530-552 and 586-616: an accessor works on a
\* .copy() of the stored table, which stays as it is
StoredAfterAccess(table, b) == table

\* the tables after the accessors of the brands in `accessed` ran
CatalogAfter(pencil_db, accessed) ==
    [b \in Brands |->
        IF b \in accessed THEN StoredAfterAccess(pencil_db[b], b) ELSE pencil_db[b]]

\* lines 66-74: the table find_best_match scans (brand = "" stands for None:
\* both fail `if brand:`)
ScannedPencils(pencil_db, brand) ==
    IF brand # ""
    THEN IF brand = "Prismacolor" THEN get_brand_pencils(pencil_db, "Prismacolor")
         ELSE IF brand = "Faber Castell" THEN get_brand_pencils(pencil_db, "Faber Castell")
         ELSE get_all_pencils(pencil_db)
    ELSE get_all_pencils(pencil_db)

\* faulty variant: a row that ties with the best so far replaces it
ImprovesOrTies(color_diff, best) ==
    best = None \/ color_diff <= best.color_difference

\* line 85: a row replaces the best so far
Improves(color_diff, best) ==
    best = None \/ color_diff < best.color_difference

RECURSIVE ScanBest(_, _, _, _)
\* lines 76-95: best_match after rows i.. of the scan (min_difference starts at
\* infinity, so the first row always replaces None)
ScanBest(pencils, i, target_rgb, best) ==
    IF i > Len(pencils) THEN best
    ELSE LET color_diff == calculate_color_difference(target_rgb, pencils[i].rgb)
         IN  ScanBest(pencils, i + 1, target_rgb,
                      IF Improves(color_diff, best)
                      THEN match_info(pencils[i], target_rgb, color_diff)
                      ELSE best)

find_best_match(pencil_db, target_rgb, brand) ==
    ScanBest(ScannedPencils(pencil_db, brand), 1, target_rgb, None)

(***************************************************************************)
(* Inputs                                                                  *)
(***************************************************************************)
\* no upload
NoImage == [mode |-> "RGB", size |-> <<0, 0>>, pixels |-> << >>, readable |-> FALSE]

ImageModes == { "RGB", "RGBA" }

ImageShapes(max_pixels) ==
    { size \in (1..max_pixels) \X (1..max_pixels) : size[1] * size[2] <= max_pixels }

\* the uploads: every readable image of a shape, and one unreadable image per
\* shape and mode
Images(max_pixels) ==
    UNION { { [mode |-> m, size |-> size, pixels |-> px, readable |-> TRUE] :
                m \in ImageModes,
                px \in [1..(size[1] * size[2]) -> PixelColors] }
            \cup
            { [mode |-> m, size |-> size, pixels |-> << >>, readable |-> FALSE] :
                m \in ImageModes } :
            size \in ImageShapes(max_pixels) }

\* max_size arguments
MaxSizes == { 1, DefaultMaxSize }

\* what image.resize may return: any pixels of the new size
ResizeOutcomes(img, max_size) ==
    IF /\ NeedsResize(img, max_size)
       /\ img.readable
       /\ NewSize(img, max_size)[1] > 0
       /\ NewSize(img, max_size)[2] > 0
    THEN [1..(NewSize(img, max_size)[1] * NewSize(img, max_size)[2]) -> PixelColors]
    ELSE { << >> }

\* the centres KMeans may find, doubled: the sums of two fitted pixels
CenterChoices(fit_pixels) ==
    { << fit_pixels[i][1] + fit_pixels[j][1],
         fit_pixels[i][2] + fit_pixels[j][2],
         fit_pixels[i][3] + fit_pixels[j][3] >> :
        i, j \in 1..Len(fit_pixels) }

\* what KMeans(n_clusters=num_colors).fit may find
FitOutcomes(img, num_colors, max_size, resampled) ==
    LET fit_pixels == FilteredPixels(Prepared(img, max_size, resampled).pixels,
                                     num_colors)
    IN  IF FailedStep(img, num_colors, max_size, fit_pixels) = "none"
        THEN [1..num_colors -> CenterChoices(fit_pixels)]
        ELSE { << >> }

(***************************************************************************)
(* Matcher calls on a catalog                                              *)
(***************************************************************************)
\* max_difference arguments, in units of 1/100
MaxDifferences == { 0, 2000, DefaultMaxDifference }

\* brand arguments of find_best_match ("" is None)
BrandFilters == Brands \cup { "" }

\* the brands holding rows: every run of consecutive tables of BrandOrder
BrandRanges ==
    { { BrandOrder[k] : k \in i..j } : i \in 1..7, j \in 0..6 }

\* the tables before any save
EmptyDb == [images |-> << >>, analyses |-> << >>, matches |-> << >>]

\* no request is being served
NoRequest ==
    /\ pc = "idle"
    /\ num_colors_requested = 0
    /\ image_id = << >>
    /\ analysis_id = << >>
    /\ dominant_colors = << >>
    /\ all_matches = << >>
    /\ db = EmptyDb
    /\ calls = << >>

MatchInit ==
    /\ \E present \in BrandRanges, n \in 0..MaxTable :
          catalog = PencilDatabase(present, n)
    /\ image = NoImage
    /\ op = "init"
    /\ args = << >>
    /\ result = << >>
    /\ raised = FALSE
    /\ NoRequest

CallFindMatches ==
    \E target_rgb \in Targets, max_matches \in 0..MaxCap,
       max_difference \in MaxDifferences :
        /\ op' = "find_matches"
        /\ args' = [target_rgb |-> target_rgb, max_matches |-> max_matches,
                    max_difference |-> max_difference]
        /\ result' = find_matches(catalog, target_rgb, max_matches, max_difference)
        /\ raised' = FALSE
        /\ catalog' = CatalogAfter(catalog, Brands)
        /\ UNCHANGED <<image, flowVars>>

CallFindBestMatch ==
    \E target_rgb \in Targets, brand \in BrandFilters :
        /\ op' = "find_best_match"
        /\ args' = [target_rgb |-> target_rgb, brand |-> brand]
        /\ result' = find_best_match(catalog, target_rgb, brand)
        /\ raised' = FALSE
        /\ catalog' = CatalogAfter(catalog, ScannedBrands(brand))
        /\ UNCHANGED <<image, flowVars>>

\* the palettes given to get_color_palette_matches
Palettes == UNION { [1..n -> Targets] : n \in 0..MaxPalette }

CallPaletteMatches ==
    \E color_palette \in Palettes, max_matches_per_color \in 1..MaxCap :
        /\ op' = "get_color_palette_matches"
        /\ args' = [color_palette |-> color_palette,
                    max_matches_per_color |-> max_matches_per_color]
        /\ result' = get_color_palette_matches(catalog, color_palette,
                                               max_matches_per_color)
        /\ raised' = FALSE
        /\ catalog' = CatalogAfter(catalog,
                                   IF color_palette = << >> THEN {} ELSE Brands)
        /\ UNCHANGED <<image, flowVars>>

CallComplementary ==
    \E target_rgb \in Targets :
        /\ op' = "get_complementary_colors"
        /\ args' = [target_rgb |-> target_rgb]
        /\ result' = get_complementary_colors(catalog, target_rgb)
        /\ raised' = FALSE
        /\ catalog' = CatalogAfter(catalog, Brands)
        /\ UNCHANGED <<image, flowVars>>

MatchNext ==
    \/ CallFindMatches
    \/ CallFindBestMatch
    \/ CallPaletteMatches
    \/ CallComplementary

MatchSpec == MatchInit /\ [][MatchNext]_vars

(***************************************************************************)
(* One extraction of an image                                              *)
(***************************************************************************)
\* no spatial analysis meets an exception
NoFaults == { {} }

ExtractInit ==
    /\ catalog = PencilDatabase({}, 0)
    /\ image \in Images(MaxPixels)
    /\ op = "init"
    /\ args = << >>
    /\ result = << >>
    /\ raised = FALSE
    /\ NoRequest

\* a call extract_dominant_colors(image, k, max_size) with k in `colors` and
\* max_size in `sizes`, during which the spatial analysis of the clusters of
\* one of the sets of `fault_sets` meets an exception
ExtractCall(colors, sizes, fault_sets) ==
    \E k \in colors, max_size \in sizes :
      \E faults \in { f \in fault_sets : f \subseteq 0..(k - 1) },
         resampled \in ResizeOutcomes(image, max_size) :
        \E centers2 \in FitOutcomes(image, k, max_size, resampled) :
          /\ op' = "extract_dominant_colors"
          /\ args' = [num_colors |-> k, max_size |-> max_size,
                      resampled |-> resampled, centers2 |-> centers2,
                      faults |-> faults]
          /\ raised' = extract_raises(image, k, max_size,
                            FilteredPixels(Prepared(image, max_size, resampled).pixels, k))
          /\ result' = IF raised' THEN << >>
                       ELSE extract_dominant_colors(image, k, max_size,
                                                    resampled, centers2, faults)

CallExtract ==
    /\ op = "init"
    /\ ExtractCall(1..MaxColors, MaxSizes, NoFaults)
    /\ UNCHANGED <<catalog, image, flowVars>>

ExtractNext == CallExtract

ExtractSpec == ExtractInit /\ [][ExtractNext]_vars

(***************************************************************************)
(* One spatial analysis of a label image                                   *)
(***************************************************************************)
\* the label image in which cluster 0 fills the rows y0..y1 of the columns
\* x0..x1 and cluster 1 the rest
RectangleLabels(height, width, y0, y1, x0, x1) ==
    [i \in 1..(height * width) |->
        LET y == (i - 1) \div width
            x == (i - 1) % width
        IN  IF y0 <= y /\ y <= y1 /\ x0 <= x /\ x <= x1 THEN 0 ELSE 1]

\* the label arrays handed to the analysis of an image: one label per pixel,
\* or, for a whole-image rectangle, an array one label short or one too long
LabelArrays(labels) ==
    IF \A i \in 1..Len(labels) : labels[i] = 0
    THEN { labels, SubSeq(labels, 1, Len(labels) - 1), Append(labels, 0) }
    ELSE { labels }

SpatialInit ==
    /\ catalog = PencilDatabase({}, 0)
    /\ image = NoImage
    /\ op = "init"
    /\ \E height \in 1..MaxDim, width \in 1..MaxDim :
         \E y0 \in 0..(height - 1), x0 \in 0..(width - 1) :
           \E y1 \in y0..(height - 1), x1 \in x0..(width - 1) :
             \E labels \in LabelArrays(RectangleLabels(height, width, y0, y1, x0, x1)) :
               args = [height |-> height, width |-> width, labels |-> labels]
    /\ result = << >>
    /\ raised = FALSE
    /\ NoRequest

CallAnalyzeLocation ==
    /\ op = "init"
    /\ "labels" \in DOMAIN args
    /\ \E cluster_id \in 0..2, fault \in BOOLEAN :
         LET location_info == analyze_color_location(args.height, args.width,
                                                     args.labels, cluster_id, fault)
         IN  /\ op' = "_analyze_color_location"
             /\ args' = [height |-> args.height, width |-> args.width,
                         labels |-> args.labels, cluster_id |-> cluster_id,
                         fault |-> fault]
             /\ raised' = (location_info = AnalysisRaised)
             /\ result' = IF raised' THEN << >> ELSE location_info
         /\ UNCHANGED <<catalog, image, flowVars>>

SpatialNext == CallAnalyzeLocation

SpatialSpec == SpatialInit /\ [][SpatialNext]_vars

(***************************************************************************)
(* DatabaseManager                                                         *)
(***************************************************************************)
\* ids are handed out in insertion order
NextId(table) == Len(table) + 1

save_image_upload(d, session_id, img) ==
    [d EXCEPT !.images =
        Append(@, [id |-> NextId(@), session_id |-> session_id,
                   image_mode |-> img.mode,
                   width |-> Width(img), height |-> Height(img)])]

save_color_analysis(d, img_id, session_id, requested, colors_extracted) ==
    [d EXCEPT !.analyses =
        Append(@, [id |-> NextId(@), image_id |-> img_id,
                   session_id |-> session_id,
                   num_colors_requested |-> requested,
                   colors_extracted |-> colors_extracted])]

\* faulty variant: the boundaries belong to the better tier (<=)
SavedQualityInclusive(diff) ==
    IF diff <= 300 THEN "Excellent"
    ELSE IF diff <= 600 THEN "Very Good"
    ELSE IF diff <= 1200 THEN "Good"
    ELSE IF diff <= 2500 THEN "Acceptable"
    ELSE "Poor"

\* database.py lines 172-183, diff in units of 1/100
SavedQuality(diff) ==
    IF diff < 300 THEN "Excellent"
    ELSE IF diff < 600 THEN "Very Good"
    ELSE IF diff < 1200 THEN "Good"
    ELSE IF diff < 2500 THEN "Acceptable"
    ELSE "Poor"

PencilMatchRow(an_id, session_id, match) ==
    [analysis_id |-> an_id, session_id |-> session_id,
     brand |-> match.brand, pencil_name |-> match.name,
     pencil_code |-> match.code, target_rgb |-> match.target_rgb,
     pencil_rgb |-> match.pencil_rgb,
     color_difference |-> match.color_difference,
     match_quality |-> SavedQuality(match.color_difference)]

save_pencil_matches(d, an_id, session_id, matches) ==
    [d EXCEPT !.matches =
        @ \o [i \in 1..Len(matches) |-> PencilMatchRow(an_id, session_id, matches[i])]]

(***************************************************************************)
(* One request of main() in app.py: an upload and what follows             *)
(***************************************************************************)
\* st.session_state.session_id
CurrentSession == "session-1"

\* find_matches(color_info['rgb'], max_matches=3)
AppMaxMatches == 3

\* st.sidebar.slider(..., min_value=3, max_value=15, value=8): the requests of
\* the model leave the slider at its lowest value
SliderMin == 3

\* where main() goes on after a save
NextStep(step) ==
    CASE step = "save_image" -> "extract"
      [] step = "save_analysis" -> "match"
      [] step = "save_matches" -> "done"

\* faulty variant: a save that fails ends the request in the outer handler
AfterSaveStopsOnFailure(step, saved) ==
    IF saved THEN NextStep(step) ELSE "error"

\* lines 146-148, 172-174 and 370-371: the handler of each save warns and
\* main() goes on as after a save that succeeded
AfterSave(step, saved) == NextStep(step)

\* faulty variant: a save is attempted whether or not the earlier one gave an id
IdNotChecked(id) == TRUE

\* `if image_id is not None:` and `if analysis_id is not None:` (an id is
\* << >> for None and <<n>> for the id n)
HasId(id) == id # << >>

\* the value handed to the save as image_id or analysis_id
IdValue(id) == IF id = << >> THEN None ELSE id[1]

\* the uploads of the model's requests: the images of up to MaxFlowPixels
\* pixels; those that can be read are one row of pixels in mode RGB
FlowImages ==
    { img \in Images(MaxFlowPixels) :
        img.readable => (img.mode = "RGB" /\ Height(img) = 1) }

\* the catalogs of the model's requests: the tables cut down to the model's
\* size, and tables without rows
FlowCatalogs == { PencilDatabase(Brands, MaxTable), PencilDatabase({}, 0) }

FlowInit ==
    /\ catalog \in FlowCatalogs
    /\ image \in FlowImages
    /\ op = "init"
    /\ args = << >>
    /\ result = << >>
    /\ raised = FALSE
    /\ pc = "upload"
    /\ num_colors_requested = SliderMin
    /\ image_id = << >>
    /\ analysis_id = << >>
    /\ dominant_colors = << >>
    /\ all_matches = << >>
    /\ db = EmptyDb
    /\ calls = << >>

\* lines 113-129: the upload is opened and shown; showing an image whose data
\* cannot be read may raise, which the handler of lines 472-474 reports
ShowUpload ==
    /\ pc = "upload"
    /\ \/ pc' = "save_image"
       \/ ~image.readable /\ pc' = "error"
    /\ UNCHANGED <<catalog, image, coreVars, num_colors_requested, image_id,
                   analysis_id, dominant_colors, all_matches, db, calls>>

\* lines 131-149: image.save raises on unreadable data and the commit may
\* fail; either way the request goes on with image_id = None
SaveImage ==
    /\ pc = "save_image"
    /\ calls' = Append(calls, "save_image_upload")
    /\ \/ /\ image.readable
          /\ db' = save_image_upload(db, CurrentSession, image)
          /\ image_id' = << NextId(db.images) >>
          /\ pc' = AfterSave("save_image", TRUE)
       \/ /\ db' = db
          /\ image_id' = << >>
          /\ pc' = AfterSave("save_image", FALSE)
    /\ UNCHANGED <<catalog, image, coreVars, num_colors_requested, analysis_id,
                   dominant_colors, all_matches>>

\* lines 151-158 and 469-470
Extract ==
    /\ pc = "extract"
    /\ ExtractCall({num_colors_requested}, {DefaultMaxSize}, NoFaults)
    /\ calls' = Append(calls, "extract_dominant_colors")
    /\ dominant_colors' = result'
    /\ pc' = IF raised' THEN "error"
             ELSE IF result' # << >> THEN "save_analysis"
             ELSE "failed"
    /\ UNCHANGED <<catalog, image, num_colors_requested, image_id, analysis_id,
                   all_matches, db>>

\* lines 162-174
SaveAnalysis ==
    /\ pc = "save_analysis"
    /\ IF HasId(image_id)
       THEN /\ calls' = Append(calls, "save_color_analysis")
            /\ \/ /\ db' = save_color_analysis(db, IdValue(image_id), CurrentSession,
                                               num_colors_requested, dominant_colors)
                  /\ analysis_id' = << NextId(db.analyses) >>
                  /\ pc' = AfterSave("save_analysis", TRUE)
               \/ /\ db' = db
                  /\ analysis_id' = << >>
                  /\ pc' = AfterSave("save_analysis", FALSE)
       ELSE /\ pc' = "match"
            /\ UNCHANGED <<calls, db, analysis_id>>
    /\ UNCHANGED <<catalog, image, coreVars, num_colors_requested, image_id,
                   dominant_colors, all_matches>>

RECURSIVE PaletteMatchesLastFirst(_, _, _)
\* faulty variant: the matches of a colour are put in front of those found so far
PaletteMatchesLastFirst(pencil_db, palette, i) ==
    IF i > Len(palette) THEN << >>
    ELSE PaletteMatchesLastFirst(pencil_db, palette, i + 1)
         \o find_matches(pencil_db, palette[i].rgb, AppMaxMatches, DefaultMaxDifference)

RECURSIVE PaletteMatches(_, _, _)
\* lines 355-360: all_matches.extend(find_matches(color_info['rgb'], max_matches=3))
PaletteMatches(pencil_db, palette, i) ==
    IF i > Len(palette) THEN << >>
    ELSE find_matches(pencil_db, palette[i].rgb, AppMaxMatches, DefaultMaxDifference)
         \o PaletteMatches(pencil_db, palette, i + 1)

\* lines 354-361 and 466-467
FindPaletteMatches ==
    /\ pc = "match"
    /\ all_matches' = PaletteMatches(catalog, dominant_colors, 1)
    /\ calls' = calls \o [i \in 1..Len(dominant_colors) |-> "find_matches"]
    /\ pc' = IF all_matches' # << >> THEN "save_matches" ELSE "no_matches"
    /\ UNCHANGED <<catalog, image, coreVars, num_colors_requested, image_id,
                   analysis_id, dominant_colors, db>>

\* lines 362-371
SaveMatches ==
    /\ pc = "save_matches"
    /\ IF HasId(analysis_id)
       THEN /\ calls' = Append(calls, "save_pencil_matches")
            /\ \/ /\ db' = save_pencil_matches(db, IdValue(analysis_id), CurrentSession,
                                               all_matches)
                  /\ pc' = AfterSave("save_matches", TRUE)
               \/ /\ db' = db
                  /\ pc' = AfterSave("save_matches", FALSE)
       ELSE /\ pc' = "done"
            /\ UNCHANGED <<calls, db>>
    /\ UNCHANGED <<catalog, image, coreVars, num_colors_requested, image_id,
                   analysis_id, dominant_colors, all_matches>>

FlowNext ==
    \/ ShowUpload
    \/ SaveImage
    \/ Extract
    \/ SaveAnalysis
    \/ FindPaletteMatches
    \/ SaveMatches

FlowSpec == FlowInit /\ [][FlowNext]_vars

(***************************************************************************)
(* Properties of find_matches and find_best_match                          *)
(***************************************************************************)
IsFindMatches == op = "find_matches"
IsFindBestMatch == op = "find_best_match"

\* the difference of a catalog row to the target of the last call
RowDiff(p) == calculate_color_difference(args.target_rgb, p.rgb)

\* how many entries of brand b the returned list holds
CountOf(b) == Cardinality({ i \in 1..Len(result) : result[i].brand = b })

\* row p of brand b is one of the returned entries
Returned(p, b) ==
    \E i \in 1..Len(result) :
        /\ result[i].brand = b
        /\ result[i].name = p.name
        /\ result[i].code = p.code
        /\ result[i].pencil_rgb = p.rgb

\* the rows of brand b within the threshold of the last call
RowsWithin(b) ==
    { i \in 1..Len(catalog[b]) : RowDiff(catalog[b][i]) <= args.max_difference }

C2_ThresholdInclusive ==
    IsFindMatches =>
        /\ \A i \in 1..Len(result) :
              result[i].color_difference <= args.max_difference
        /\ \A k \in 1..Len(ReturnedBrands) :
              LET b == ReturnedBrands[k]
              IN  \A r \in 1..Len(catalog[b]) :
                      RowDiff(catalog[b][r]) = args.max_difference =>
                          \/ Returned(catalog[b][r], b)
                          \/ CountOf(b) = args.max_matches

\* C2 witness: a returned entry at exactly max_difference, while another row of
\* the same brand is beyond the threshold and is left out
C2_Witness ==
    /\ IsFindMatches
    /\ \E i \in 1..Len(result) :
          /\ result[i].color_difference = args.max_difference
          /\ \E r \in 1..Len(catalog[result[i].brand]) :
                /\ RowDiff(catalog[result[i].brand][r]) > args.max_difference
                /\ ~Returned(catalog[result[i].brand][r], result[i].brand)

\* C3: at most max_matches entries per brand, and a brand's returned entries
\* are its closest: no row of the brand within the threshold that was left out
\* is strictly closer than a returned one
C3_PerBrandCapClosest ==
    IsFindMatches =>
        \A b \in Brands :
            /\ CountOf(b) <= args.max_matches
            /\ \A r \in RowsWithin(b) :
                  ~Returned(catalog[b][r], b) =>
                      \A i \in 1..Len(result) :
                          result[i].brand = b =>
                              ~(RowDiff(catalog[b][r]) < result[i].color_difference)

\* C3 witness: a brand filled to its cap while a row of it within the
\* threshold, further than a returned one, is left out
C3_Witness ==
    /\ IsFindMatches
    /\ args.max_matches >= 1
    /\ \E b \in Brands :
          /\ CountOf(b) = args.max_matches
          /\ \E r \in RowsWithin(b) :
                /\ ~Returned(catalog[b][r], b)
                /\ \E i \in 1..Len(result) :
                      /\ result[i].brand = b
                      /\ result[i].color_difference < RowDiff(catalog[b][r])

\* C4 (as claimed): every brand of the catalog is capped independently: the
\* list holds exactly min(max_matches, n_B) entries of each brand B, n_B being
\* the number of B's rows within the threshold
C4_EveryBrandCapped ==
    IsFindMatches =>
        \A b \in Brands :
            CountOf(b) = Min(args.max_matches, Cardinality(RowsWithin(b)))

\* the row of `pencils` at position i is the returned best match
IsRow(pencils, i) ==
    /\ result.brand = pencils[i].brand
    /\ result.name = pencils[i].name
    /\ result.code = pencils[i].code
    /\ result.pencil_rgb = pencils[i].rgb
    /\ result.color_difference = RowDiff(pencils[i])

\* C5: without a brand filter find_best_match returns the row of the whole
\* catalog with the least difference, the first such row in catalog order,
\* whatever that difference is, and None only when the catalog has no row
C5_BestIsFirstGlobalMinimum ==
    (IsFindBestMatch /\ args.brand = "") =>
        LET pencils == get_all_pencils(catalog)
        IN  /\ (result = None) <=> (Len(pencils) = 0)
            /\ result # None =>
                  \E i \in 1..Len(pencils) :
                      /\ IsRow(pencils, i)
                      /\ \A j \in 1..Len(pencils) :
                            RowDiff(pencils[j]) >= result.color_difference
                      /\ \A j \in 1..(i - 1) :
                            RowDiff(pencils[j]) > result.color_difference

\* C5 witness: an unfiltered best match beyond the default threshold of
\* find_matches, with a later row of the catalog at the same difference
C5_Witness ==
    /\ IsFindBestMatch
    /\ args.brand = ""
    /\ result # None
    /\ result.color_difference > DefaultMaxDifference
    /\ LET pencils == get_all_pencils(catalog)
       IN  \E i, j \in 1..Len(pencils) :
              /\ i < j
              /\ IsRow(pencils, i)
              /\ RowDiff(pencils[j]) = result.color_difference

\* C6 (as claimed): with a brand filter naming a brand that has rows, the
\* best match is of that brand and its difference is the least over that
\* brand's rows
C6_FilterRestrictsScan ==
    (IsFindBestMatch /\ args.brand \in Brands /\ catalog[args.brand] # << >>) =>
        /\ result # None
        /\ result.brand = args.brand
        /\ \A r \in 1..Len(catalog[args.brand]) :
              RowDiff(catalog[args.brand][r]) >= result.color_difference
        /\ \E r \in 1..Len(catalog[args.brand]) :
              RowDiff(catalog[args.brand][r]) = result.color_difference

(***************************************************************************)
(* Properties of extract_dominant_colors                                   *)
(***************************************************************************)
IsExtract == op = "extract_dominant_colors"

\* the image the last extraction read its pixels from, and the pixels it fitted
ExtractPrepared == Prepared(image, args.max_size, args.resampled)
ExtractFitPixels == FilteredPixels(ExtractPrepared.pixels, args.num_colors)

\* the last extraction could not finish: the image data cannot be read, the
\* resized image would have no pixel, or there are fewer pixels than clusters
ExtractionFails ==
    \/ ~image.readable
    \/ /\ NeedsResize(image, args.max_size)
       /\ NewSize(image, args.max_size)[1] * NewSize(image, args.max_size)[2] = 0
    \/ Len(ExtractPrepared.pixels) < args.num_colors

\* C7: extraction returns no entry when it fails and exactly num_colors
\* entries otherwise, and the entries are in descending order of percentage
C7_CountAndDescending ==
    IsExtract =>
        /\ Len(result) = IF ExtractionFails THEN 0 ELSE args.num_colors
        /\ \A i, j \in 1..Len(result) :
              i < j => ~PctLess(result[i].percentage, result[j].percentage)

\* C7 witness: num_colors >= 2 entries, the first with a strictly larger
\* percentage than the second and not the entry of cluster 0
C7_Witness ==
    /\ IsExtract
    /\ args.num_colors >= 2
    /\ Len(result) = args.num_colors
    /\ PctLess(result[2].percentage, result[1].percentage)
    /\ result[1].rgb # CenterAsInt(args.centers2[1])

\* the number of fitted pixels of the last extraction nearest to centre c
FittedCount(c) ==
    Cardinality({ n \in 1..Len(ExtractFitPixels) :
                    NearestCenter(args.centers2, ExtractFitPixels[n]) = c - 1 })

\* C8: in a non-empty result the entries are the clusters, each with
\* percentage 100 * (fitted pixels of the cluster) / (fitted pixels); every
\* percentage is within [0, 100] and together they make 100
C8_PercentagesOfFittedPixels ==
    (IsExtract /\ result # << >>) =>
        /\ \E cluster \in Permutations(1..args.num_colors) :
              \A j \in 1..Len(result) :
                  /\ result[j].rgb = CenterAsInt(args.centers2[cluster[j]])
                  /\ result[j].percentage =
                         Pct(FittedCount(cluster[j]), Len(ExtractFitPixels))
        /\ \A j \in 1..Len(result) :
              /\ ~PctLess(result[j].percentage, PctZero)
              /\ PctAtMost(result[j].percentage, 100)
              /\ result[j].percentage[2] = Len(ExtractFitPixels)
        /\ SumOf([j \in 1..Len(result) |-> result[j].percentage[1]], 1)
               = 100 * Len(ExtractFitPixels)

\* C8 witness: a result for num_colors >= 2 on an image whose fitted pixels
\* are all the same colour while another pixel was filtered out
C8_Witness ==
    /\ IsExtract
    /\ result # << >>
    /\ args.num_colors >= 2
    /\ \A n \in 1..Len(ExtractFitPixels) : ExtractFitPixels[n] = ExtractFitPixels[1]
    /\ Len(ExtractFitPixels) < Len(ExtractPrepared.pixels)

(***************************************************************************)
(* Properties of the spatial analysis                                      *)
(***************************************************************************)
IsAnalyzeLocation == op = "_analyze_color_location"

\* the analysed cluster is assigned to every pixel of the label image
WholeImageCluster ==
    /\ IsAnalyzeLocation
    /\ ~args.fault
    /\ Len(args.labels) = args.height * args.width
    /\ \A i \in 1..Len(args.labels) : args.labels[i] = args.cluster_id

Called(name) == Contains(calls, name)

\* C9: extraction never raises into main(): when a step of it fails it
\* returns the empty list, and main() then reports the failure and makes no
\* find_matches call and no save_color_analysis call, so that no analysis row
\* and no match row is written
C9_FailedExtractionIsEmpty ==
    Called("extract_dominant_colors") =>
        /\ ~raised
        /\ pc # "error"
        /\ ExtractionFails =>
              /\ dominant_colors = << >>
              /\ pc = "failed"
              /\ ~Called("find_matches")
              /\ ~Called("save_color_analysis")
              /\ ~Called("save_pencil_matches")
              /\ all_matches = << >>
              /\ db.analyses = << >>
              /\ db.matches = << >>

\* C9 witness: a readable image with fewer pixels than num_colors: the
\* clustering fails and the request ends as a failed extraction
C9_Witness ==
    /\ Called("extract_dominant_colors")
    /\ image.readable
    /\ Len(image.pixels) < num_colors_requested
    /\ dominant_colors = << >>
    /\ pc = "failed"

(***************************************************************************)
(* Calls of calculate_color_difference on two colours                      *)
(***************************************************************************)
\* colours one channel step away from black, white, grey and red
NeighbourColors ==
    { <<0, 0, 1>>, <<0, 1, 0>>, <<1, 0, 0>>, <<254, 0, 0>>,
      <<255, 255, 255>>, <<255, 255, 254>>, <<128, 128, 128>>, <<128, 129, 128>> }

\* the colours the difference is taken of: those of the catalog, of the
\* targets and palettes, and the neighbours
DifferenceColors == Targets \cup PaletteColors \cup CatalogColors \cup NeighbourColors

DifferenceInit ==
    /\ catalog = PencilDatabase({}, 0)
    /\ image = NoImage
    /\ op = "init"
    /\ args = << >>
    /\ result = << >>
    /\ raised = FALSE
    /\ NoRequest

CallColorDifference ==
    \E color1_rgb \in DifferenceColors, color2_rgb \in DifferenceColors :
        /\ op = "init"
        /\ op' = "calculate_color_difference"
        /\ args' = [color1_rgb |-> color1_rgb, color2_rgb |-> color2_rgb]
        /\ result' = calculate_color_difference(color1_rgb, color2_rgb)
        /\ UNCHANGED <<catalog, image, raised, flowVars>>

DifferenceNext == CallColorDifference

DifferenceSpec == DifferenceInit /\ [][DifferenceNext]_vars

(***************************************************************************)
(* Properties of calculate_color_difference                                *)
(***************************************************************************)
IsColorDifference == op = "calculate_color_difference"

\* C11: the difference of two colours is the difference of the same colours
\* taken in the other order, it is never negative, and it is zero exactly
\* when the two RGB triples are the same
C11_SymmetricZeroIffSame ==
    IsColorDifference =>
        /\ result = calculate_color_difference(args.color2_rgb, args.color1_rgb)
        /\ result >= 0
        /\ (result = 0) <=> (args.color1_rgb = args.color2_rgb)

\* C11 witness: two colours one channel step apart, less than one unit of
\* difference apart and not at difference zero
C11_Witness ==
    /\ IsColorDifference
    /\ args.color1_rgb # args.color2_rgb
    /\ result > 0
    /\ result < 100

(***************************************************************************)
(* The three places that name the quality of a match                       *)
(***************************************************************************)
\* ColorMatcher.calculate_match_quality, color_difference in units of 1/100
calculate_match_quality(color_difference) ==
    IF color_difference < 300 THEN "Excellent match"
    ELSE IF color_difference < 600 THEN "Very good match"
    ELSE IF color_difference < 1200 THEN "Good match"
    ELSE IF color_difference < 2500 THEN "Acceptable match"
    ELSE "Poor match"

\* PaletteExporter._get_quality_text, color_difference in units of 1/100
get_quality_text(color_difference) ==
    IF color_difference < 300 THEN "Excellent"
    ELSE IF color_difference < 600 THEN "Very Good"
    ELSE IF color_difference < 1200 THEN "Good"
    ELSE IF color_difference < 2500 THEN "Acceptable"
    ELSE "Poor"

QualityPlaces == { "matcher", "saved", "exported" }

QualityAt(place, color_difference) ==
    CASE place = "matcher" -> calculate_match_quality(color_difference)
      [] place = "saved" -> SavedQuality(color_difference)
      [] place = "exported" -> get_quality_text(color_difference)

\* differences in units of 1/100: at, just below and just above each boundary
QualityDifferences ==
    { 0, 1, 299, 300, 301, 599, 600, 601, 1199, 1200, 1201,
      2499, 2500, 2501, 5000, 20000 }

NotComputed == "not computed"

QualityInit ==
    /\ catalog = PencilDatabase({}, 0)
    /\ image = NoImage
    /\ op = "init"
    /\ args = << >>
    /\ result = [place \in QualityPlaces |-> NotComputed]
    /\ raised = FALSE
    /\ NoRequest

\* one of the places names the quality of a difference; the places that
\* follow are asked about the same difference
CallQuality(place) ==
    \E color_difference \in QualityDifferences :
        /\ IF op = "init" THEN TRUE ELSE args.color_difference = color_difference
        /\ result[place] = NotComputed
        /\ op' = place
        /\ args' = [color_difference |-> color_difference]
        /\ result' = [result EXCEPT ![place] = QualityAt(place, color_difference)]
        /\ UNCHANGED <<catalog, image, raised, flowVars>>

MatcherQuality == CallQuality("matcher")
SaveQuality == CallQuality("saved")
ExportQuality == CallQuality("exported")

QualityNext ==
    \/ MatcherQuality
    \/ SaveQuality
    \/ ExportQuality

QualitySpec == QualityInit /\ [][QualityNext]_vars

(***************************************************************************)
(* Properties of the quality tiers                                         *)
(***************************************************************************)
\* the tier, 1 the best, that a label of one of the places stands for
TierOf(label) ==
    CASE label \in { "Excellent match", "Excellent" } -> 1
      [] label \in { "Very good match", "Very Good" } -> 2
      [] label \in { "Good match", "Good" } -> 3
      [] label \in { "Acceptable match", "Acceptable" } -> 4
      [] label \in { "Poor match", "Poor" } -> 5

\* the tier the boundaries 3, 6, 12 and 25 give a difference
TierByBoundaries(d) ==
    1 + Cardinality({ bound \in { 300, 600, 1200, 2500 } : d >= bound })

\* C12: every place gives a difference the tier of the boundaries 3, 6, 12
\* and 25 (a boundary value belongs to the worse tier), so the tier never
\* improves as the difference grows and the three places agree on it
C12_SameTierEverywhere ==
    (op \in QualityPlaces) =>
        /\ \A place \in QualityPlaces :
              result[place] # NotComputed =>
                  TierOf(result[place]) = TierByBoundaries(args.color_difference)
        /\ \A p, q \in QualityPlaces :
              (result[p] # NotComputed /\ result[q] # NotComputed) =>
                  TierOf(result[p]) = TierOf(result[q])

\* C12 witness: the three places have named the quality of a difference that
\* is exactly a boundary
C12_Witness ==
    /\ op \in QualityPlaces
    /\ args.color_difference \in { 300, 600, 1200, 2500 }
    /\ \A place \in QualityPlaces : result[place] # NotComputed
    /\ result["saved"] = result["exported"]
    /\ result["matcher"] # result["saved"]

(***************************************************************************)
(* The analyzer with spatial analyses that fail                            *)
(***************************************************************************)
\* the sets of clusters whose spatial analysis meets an exception
AnalysisFaults == SUBSET (0..(MaxColors - 1))

AnalyzerInit ==
    \/ /\ catalog = PencilDatabase({}, 0)
       /\ image \in Images(MaxFaultPixels)
       /\ op = "init"
       /\ args = << >>
       /\ result = << >>
       /\ raised = FALSE
       /\ NoRequest
    \/ SpatialInit

CallExtractWithFaults ==
    /\ op = "init"
    /\ image # NoImage
    /\ ExtractCall(1..MaxColors, {DefaultMaxSize}, AnalysisFaults)
    /\ UNCHANGED <<catalog, image, flowVars>>

AnalyzerNext ==
    \/ CallExtractWithFaults
    \/ CallAnalyzeLocation

AnalyzerSpec == AnalyzerInit /\ [][AnalyzerNext]_vars

(***************************************************************************)
(* Properties of failing spatial analyses                                  *)
(***************************************************************************)
\* the last analysis met an exception
AnalysisFails ==
    /\ IsAnalyzeLocation
    /\ args.fault \/ Len(args.labels) # args.height * args.width

\* what extraction's entry of cluster c (0-based) holds as location_info
ExpectedLocation(c) ==
    IF c \in args.faults THEN AnalysisUnavailable
    ELSE analyze_color_location(Height(ExtractPrepared), Width(ExtractPrepared),
                                PredictLabels(args.centers2, ExtractPrepared.pixels),
                                c, FALSE)

\* C13: an exception inside the spatial analysis of a cluster does not leave
\* it: the analysis returns the "Analysis unavailable" value, and an
\* extraction in which analyses fail still returns the entry of every
\* cluster, the failed ones with that value as location_info
C13_AnalysisFailureIsContained ==
    /\ AnalysisFails => (~raised /\ result = AnalysisUnavailable)
    /\ (IsExtract /\ ~ExtractionFails) =>
          /\ ~raised
          /\ Len(result) = args.num_colors
          /\ \E cluster \in Permutations(1..args.num_colors) :
                \A j \in 1..Len(result) :
                    /\ result[j].rgb = CenterAsInt(args.centers2[cluster[j]])
                    /\ result[j].location_info = ExpectedLocation(cluster[j] - 1)

\* C13 witness: an extraction of two clusters in which the analysis of one
\* failed and the analysis of the other did not
C13_Witness ==
    /\ IsExtract
    /\ Len(result) = 2
    /\ Cardinality(args.faults) = 1
    /\ \E i, j \in 1..2 :
          /\ result[i].location_info = AnalysisUnavailable
          /\ result[j].location_info.distribution # "unknown"

(***************************************************************************)
(* Properties of the analysis of a cluster without a pixel                 *)
(***************************************************************************)
\* no pixel of the label image of the last analysis carries the cluster id
ClusterAbsent ==
    /\ IsAnalyzeLocation
    /\ ~AnalysisFails
    /\ \A i \in 1..Len(args.labels) : args.labels[i] # args.cluster_id

\* C14: the analysis of a cluster that no pixel carries returns regions
\* ["Not found"], distribution "scattered", no primary area and coverage 0 for
\* the six tags; no analysis returns the distribution "none"
C14_AbsentClusterNotFound ==
    /\ ClusterAbsent =>
          /\ result = NotFound
          /\ result.regions = << "Not found" >>
          /\ result.distribution = "scattered"
          /\ result.primary_areas = << >>
          /\ \A tag \in DOMAIN result.coverage : PctEqual(result.coverage[tag], PctZero)
          /\ DOMAIN result.coverage = { "top", "middle", "bottom", "left", "center", "right" }
    /\ (IsAnalyzeLocation /\ ~raised) => result.distribution # "none"

\* C14 witness: an analysis of a cluster id that none of the pixels of a
\* label image carries
C14_Witness ==
    /\ ClusterAbsent
    /\ Len(args.labels) >= 4
    /\ result.regions = << "Not found" >>

(***************************************************************************)
(* Properties of the request flow under failing saves                      *)
(***************************************************************************)
\* the save was called and did not store its row
ImageSaveFailed == Called("save_image_upload") /\ image_id = << >>
AnalysisSaveFailed == Called("save_color_analysis") /\ analysis_id = << >>
MatchesSaveFailed == Called("save_pencil_matches") /\ db.matches = << >>

\* C15: whatever saves fail, the request goes on: it ends in the outer
\* handler only before the first save, the palette is the one the extraction
\* returns for the image and the match list is the one find_matches gives for
\* that palette, neither depending on what was saved
C15_SavesDoNotChangeResults ==
    /\ pc = "error" => calls = << >>
    /\ pc \in { "save_analysis", "match", "save_matches", "no_matches", "done", "failed" }
          => /\ Called("extract_dominant_colors")
             /\ args.num_colors = num_colors_requested
             /\ args.max_size = DefaultMaxSize
             /\ dominant_colors = result
    /\ pc \in { "save_matches", "no_matches", "done" }
          => /\ Called("find_matches")
             /\ all_matches = PaletteMatches(catalog, dominant_colors, 1)
    /\ pc \in { "match", "save_matches", "no_matches", "done" }
          => dominant_colors # << >>
    /\ pc \in { "save_matches", "done" } => all_matches # << >>

\* C15 witness: a request that ended with a palette and matches although the
\* image row could not be saved, so that nothing was saved at all
C15_Witness ==
    /\ pc = "done"
    /\ ImageSaveFailed
    /\ image.readable
    /\ ~Called("save_color_analysis")
    /\ ~Called("save_pencil_matches")
    /\ Len(dominant_colors) = num_colors_requested
    /\ all_matches # << >>

\* a request that ended with matches although the analysis row could not be
\* saved, and one in which the match rows could not be saved
C15_AnalysisSaveFailedReached == pc = "done" /\ AnalysisSaveFailed /\ all_matches # << >>
C15_MatchesSaveFailedReached == pc = "done" /\ MatchesSaveFailed /\ all_matches # << >>

(***************************************************************************)
(* The catalog under the matcher's calls                                   *)
(***************************************************************************)
MatcherOps ==
    { "find_matches", "find_best_match", "get_color_palette_matches",
      "get_complementary_colors" }

\* what the call `o` with the arguments `a` returns on the tables pencil_db
MatcherResult(pencil_db, o, a) ==
    CASE o = "find_matches" ->
            find_matches(pencil_db, a.target_rgb, a.max_matches, a.max_difference)
      [] o = "find_best_match" ->
            find_best_match(pencil_db, a.target_rgb, a.brand)
      [] o = "get_color_palette_matches" ->
            get_color_palette_matches(pencil_db, a.color_palette,
                                      a.max_matches_per_color)
      [] o = "get_complementary_colors" ->
            get_complementary_colors(pencil_db, a.target_rgb)

SameFraction(x, y) == x[1] * y[2] = y[1] * x[2]

\* C17: get_complementary_colors(t) is find_matches, with a cap of 3 per brand
\* and the threshold 50, of a colour whose hue is that of t plus one half
\* (mod 1) and whose saturation and value are those of t; for t = (255, 0, 0)
\* that colour has hue one half (a grey t has no hue to compare)
C17_ComplementHasRotatedHue ==
    op = "get_complementary_colors" =>
        LET t == rgb_to_hsv(args.target_rgb)
            searched == complementary_rgb(args.target_rgb)
            c == rgb_to_hsv(searched)
        IN  /\ result = find_matches(catalog, searched, ComplementMaxMatches,
                                     DefaultMaxDifference)
            /\ \A i \in 1..Len(result) : result[i].target_rgb = searched
            /\ t.s[1] # 0 => SameFraction(c.h6, RotateHue(t.h6))
            /\ SameFraction(c.s, t.s)
            /\ c.v = t.v
            /\ args.target_rgb = <<255, 0, 0>> => SameFraction(c.h6, <<3, 1>>)

(***************************************************************************)
(* The match list of a request                                             *)
(***************************************************************************)
\* the matching step of the request is over
Matched == pc \in { "save_matches", "no_matches", "done" }

RECURSIVE MadeOfSegments(_, _)
\* `rest` begins with what find_matches returns for colour i of the palette,
\* goes on with what it returns for colour i + 1, and so on to the end
MadeOfSegments(i, rest) ==
    IF i > Len(dominant_colors) THEN rest = << >>
    ELSE LET matches == find_matches(catalog, dominant_colors[i].rgb,
                                     AppMaxMatches, DefaultMaxDifference)
         IN  /\ Len(matches) <= Len(rest)
             /\ SubSeq(rest, 1, Len(matches)) = matches
             /\ MadeOfSegments(i + 1, SubSeq(rest, Len(matches) + 1, Len(rest)))

EmptyCatalog == \A b \in Brands : catalog[b] = << >>

\* C18: the match list of a request is the matches of the first palette
\* colour, then those of the second, and so on: every match's target_rgb is
\* a palette colour, a match of an earlier palette entry stands before the
\* matches of the later ones, and with an empty palette or an empty catalog
\* the list is empty and the request did not end in the exception handler
C18_MatchesInPaletteOrder ==
    /\ Matched =>
          /\ MadeOfSegments(1, all_matches)
          /\ \A a \in 1..Len(all_matches) :
                \E i \in 1..Len(dominant_colors) :
                    all_matches[a].target_rgb = dominant_colors[i].rgb
          /\ \A a, b \in 1..Len(all_matches) :
                a < b =>
                    \E i, j \in 1..Len(dominant_colors) :
                        /\ i <= j
                        /\ all_matches[a].target_rgb = dominant_colors[i].rgb
                        /\ all_matches[b].target_rgb = dominant_colors[j].rgb
          /\ EmptyCatalog => all_matches = << >>
    /\ (pc \notin { "upload", "save_image", "extract" } /\ dominant_colors = << >>) =>
          all_matches = << >>
    /\ Called("extract_dominant_colors") => pc # "error"

\* a request whose match list holds the matches of two different palette
\* colours
C18_Witness ==
    /\ Matched
    /\ \E a, b \in 1..Len(all_matches) :
          all_matches[a].target_rgb # all_matches[b].target_rgb

\* a request on an empty catalog that went through the matching, and one
\* whose palette is empty
C18_EmptyCatalogReached == pc = "no_matches" /\ EmptyCatalog /\ dominant_colors # << >>
C18_EmptyPaletteReached == pc = "failed" /\ dominant_colors = << >> /\ all_matches = << >>

(***************************************************************************)
(* Extraction from images with pixels at the limits of the brightness      *)
(* filter                                                                  *)
(***************************************************************************)
\* pixel colours of mean brightness 20, 235 and 85
BoundaryColors ==
    { <<20, 20, 20>>, <<235, 235, 235>>, <<255, 0, 0>>, <<0, 0, 255>> }

\* one row of up to MaxFilterPixels such pixels, in mode RGB
FilterImages ==
    UNION { { [mode |-> "RGB", size |-> <<n, 1>>, pixels |-> px, readable |-> TRUE] :
                px \in [1..n -> BoundaryColors] } :
            n \in 1..MaxFilterPixels }

FilterInit ==
    /\ catalog = PencilDatabase({}, 0)
    /\ image \in FilterImages
    /\ op = "init"
    /\ args = << >>
    /\ result = << >>
    /\ raised = FALSE
    /\ NoRequest

CallExtractDefaultSize ==
    /\ op = "init"
    /\ ExtractCall(1..MaxColors, {DefaultMaxSize}, NoFaults)
    /\ UNCHANGED <<catalog, image, flowVars>>

FilterNext == CallExtractDefaultSize

FilterSpec == FilterInit /\ [][FilterNext]_vars

\* the pixels of the image whose mean brightness lies strictly between 20
\* and 235
MidBrightness ==
    SelectSeq(ExtractPrepared.pixels,
              LAMBDA p : 60 < p[1] + p[2] + p[3] /\ p[1] + p[2] + p[3] < 705)

\* the pixels the claim says the clustering is fitted to
ClaimedFitPixels ==
    IF Len(MidBrightness) >= args.num_colors THEN MidBrightness
    ELSE ExtractPrepared.pixels

\* how many of the claimed pixels are nearest to centre c
ClaimedCount(c) ==
    Cardinality({ n \in 1..Len(ClaimedFitPixels) :
                    NearestCenter(args.centers2, ClaimedFitPixels[n]) = c - 1 })

\* C19: the clustering is fitted to the pixels whose mean brightness b has
\* 20 < b < 235 when there are at least num_colors of them, and to all pixels
\* otherwise: every centre lies between two of those pixels, and every
\* percentage is the share of a cluster among those pixels
C19_FitsBrightnessFilteredPixels ==
    (IsExtract /\ result # << >>) =>
        /\ \A c \in 1..args.num_colors :
              \E a, b \in 1..Len(ClaimedFitPixels) :
                  args.centers2[c] =
                      << ClaimedFitPixels[a][1] + ClaimedFitPixels[b][1],
                         ClaimedFitPixels[a][2] + ClaimedFitPixels[b][2],
                         ClaimedFitPixels[a][3] + ClaimedFitPixels[b][3] >>
        /\ \E cluster \in Permutations(1..args.num_colors) :
              \A j \in 1..Len(result) :
                  /\ result[j].rgb = CenterAsInt(args.centers2[cluster[j]])
                  /\ result[j].percentage =
                         Pct(ClaimedCount(cluster[j]), Len(ClaimedFitPixels))

\* an extraction that left out a pixel of brightness exactly 20
C19_Witness ==
    /\ IsExtract
    /\ result # << >>
    /\ Len(MidBrightness) >= args.num_colors
    /\ \E n \in 1..Len(image.pixels) : image.pixels[n] = <<20, 20, 20>>
    /\ \A j \in 1..Len(result) : result[j].percentage[2] = Len(MidBrightness)

\* an extraction that left out a pixel of brightness exactly 235, and one
\* that fell back to all pixels
C19_UpperLimitReached ==
    /\ IsExtract
    /\ result # << >>
    /\ Len(MidBrightness) >= args.num_colors
    /\ \E n \in 1..Len(image.pixels) : image.pixels[n] = <<235, 235, 235>>
C19_FallbackReached ==
    /\ IsExtract
    /\ result # << >>
    /\ Len(MidBrightness) < args.num_colors
    /\ Len(MidBrightness) > 0

(***************************************************************************)
(* The distribution of a cluster                                           *)
(***************************************************************************)
\* the pixels (1-based, row by row) that carry the analysed cluster, and the
\* row and the column of a pixel
ClusterPixels == { i \in 1..Len(args.labels) : args.labels[i] = args.cluster_id }
RowOf == [i \in 1..Len(args.labels) |-> (i - 1) \div args.width]
ColumnOf == [i \in 1..Len(args.labels) |-> (i - 1) % args.width]

\* the analysis of a non-empty cluster ran to its end on a label array that
\* fits the image
AnalysedCluster ==
    /\ IsAnalyzeLocation
    /\ ~args.fault
    /\ ~raised
    /\ Len(args.labels) = args.height * args.width
    /\ ClusterPixels # {}

\* largest minus smallest coordinate of the cluster
Extent(coord) ==
    LET values == { coord[i] : i \in ClusterPixels }
    IN  (CHOOSE a \in values : \A b \in values : b <= a)
        - (CHOOSE a \in values : \A b \in values : a <= b)

RECURSIVE WeightedPairSum(_, _)
\* the sum of count[a] * count[b] * (a - b)^2 over the pairs <<a, b>>
WeightedPairSum(pairs, count) ==
    IF pairs = {} THEN 0
    ELSE LET p == CHOOSE q \in pairs : TRUE
         IN  count[p[1]] * count[p[2]] * (p[1] - p[2]) * (p[1] - p[2])
             + WeightedPairSum(pairs \ { p }, count)

\* n^2 times the variance of the coordinate over the n pixels of the cluster:
\* the sum of the squared differences over the pairs of pixels
Dispersion(coord) ==
    LET values == { coord[i] : i \in ClusterPixels }
        count == [a \in values |->
                     Cardinality({ i \in ClusterPixels : coord[i] = a })]
    IN  WeightedPairSum({ q \in values \X values : q[1] < q[2] }, count)

\* spread > 0.7, spread < 0.3 and normalized standard deviation < 0.15
Wide(coord, size) == 10 * Extent(coord) > 7 * size
Narrow(coord, size) == 10 * Extent(coord) < 3 * size
Tight(coord, size) ==
    400 * Dispersion(coord)
        < 9 * size * size * Cardinality(ClusterPixels) * Cardinality(ClusterPixels)

BothWide == Wide(RowOf, args.height) /\ Wide(ColumnOf, args.width)
BothTight == Tight(RowOf, args.height) /\ Tight(ColumnOf, args.width)
EitherNarrow == Narrow(RowOf, args.height) \/ Narrow(ColumnOf, args.width)

\* C20: the distribution of a non-empty cluster is widespread when both
\* spreads are above 0.7, else concentrated when both normalized standard
\* deviations are below 0.15, else localized when a spread is below 0.3, else
\* scattered; a cluster both tight and narrow is concentrated
C20_FirstMatchingRule ==
    AnalysedCluster =>
        /\ result.distribution =
               (IF BothWide THEN "widespread"
                ELSE IF BothTight THEN "concentrated"
                ELSE IF EitherNarrow THEN "localized"
                ELSE "scattered")
        /\ (BothTight /\ EitherNarrow /\ ~BothWide) =>
               result.distribution = "concentrated"
        /\ Cardinality(ClusterPixels) = 1 => result.distribution = "concentrated"

\* a single pixel of a larger image, tight and narrow at once, was analysed
\* as concentrated
C20_Witness ==
    /\ AnalysedCluster
    /\ Cardinality(ClusterPixels) = 1
    /\ Len(args.labels) > 1
    /\ BothTight
    /\ EitherNarrow
    /\ result.distribution = "concentrated"

\* clusters of the other three kinds, and a concentrated one of several pixels
C20_WidespreadReached == AnalysedCluster /\ result.distribution = "widespread"
C20_LocalizedReached == AnalysedCluster /\ result.distribution = "localized"
C20_ScatteredReached == AnalysedCluster /\ result.distribution = "scattered"
C20_ConcentratedSeveralReached ==
    /\ AnalysedCluster
    /\ Cardinality(ClusterPixels) > 1
    /\ result.distribution = "concentrated"

(***************************************************************************)
(* _find_primary_areas and _describe_regions on any coverage dictionary    *)
(***************************************************************************)
\* coverages of a tag: 0, exactly 20, 25 and 100
CoverageValues == { Pct(0, 1), Pct(1, 5), Pct(1, 4), Pct(1, 1) }

RegionInit ==
    /\ catalog = PencilDatabase({}, 0)
    /\ image = NoImage
    /\ op = "init"
    /\ \E coverage \in [{ RegionTags[i] : i \in 1..Len(RegionTags) } -> CoverageValues] :
          args = [coverage |-> coverage]
    /\ result = << >>
    /\ raised = FALSE
    /\ NoRequest

\* line 197: primary_areas = self._find_primary_areas(coverage)
CallFindPrimaryAreas ==
    /\ op = "init"
    /\ "coverage" \in DOMAIN args
    /\ op' = "_find_primary_areas"
    /\ args' = [coverage |-> args.coverage]
    /\ result' = find_primary_areas(args.coverage)
    /\ raised' = FALSE
    /\ UNCHANGED <<catalog, image, flowVars>>

\* line 200: regions = self._describe_regions(coverage, primary_areas), on
\* the list _find_primary_areas returned or on an empty list
CallDescribeRegions ==
    /\ op = "_find_primary_areas"
    /\ \E primary_areas \in { result, << >> } :
          /\ op' = "_describe_regions"
          /\ args' = [coverage |-> args.coverage, primary_areas |-> primary_areas]
          /\ result' = describe_regions(args.coverage, primary_areas)
    /\ raised' = FALSE
    /\ UNCHANGED <<catalog, image, flowVars>>

RegionNext == CallFindPrimaryAreas \/ CallDescribeRegions

RegionSpec == RegionInit /\ [][RegionNext]_vars

VerticalTags == { "top", "middle", "bottom" }
HorizontalTags == { "left", "center", "right" }

\* the tags of a set whose coverage in the last call's dictionary is above 20
Qualifying(tags) ==
    { t \in tags : args.coverage[t][1] > 20 * args.coverage[t][2] }

\* the position of a tag in the order top, middle, bottom, left, center, right
TagRank(t) == CHOOSE i \in 1..Len(RegionTags) : RegionTags[i] = t

\* C21: primary_areas holds every vertical tag with coverage > 20; the
\* horizontal tags with coverage > 20 only when no vertical tag qualified;
\* ["scattered"] when no tag of either axis qualified; a coverage of exactly
\* 20 does not qualify
C21_PrimaryAreasAbove20 ==
    op = "_find_primary_areas" =>
        LET expected == IF Qualifying(VerticalTags) # {} THEN Qualifying(VerticalTags)
                        ELSE Qualifying(HorizontalTags)
        IN  /\ expected = {} => result = << "scattered" >>
            /\ expected # {} =>
                  /\ { result[i] : i \in 1..Len(result) } = expected
                  /\ Len(result) = Cardinality(expected)
                  /\ \A i, j \in 1..Len(result) :
                        i < j => TagRank(result[i]) < TagRank(result[j])
            /\ \A t \in VerticalTags \cup HorizontalTags :
                  args.coverage[t] = Pct(1, 5) => ~Contains(result, t)

\* the vertical coverages are 20, 20 and 0, so the horizontal tags decide, and
\* of them left is above 20 and center exactly 20
C21_Witness ==
    /\ op = "_find_primary_areas"
    /\ args.coverage["top"] = Pct(1, 5)
    /\ args.coverage["middle"] = Pct(1, 5)
    /\ args.coverage["bottom"] = Pct(0, 1)
    /\ args.coverage["left"] = Pct(1, 4)
    /\ args.coverage["center"] = Pct(1, 5)
    /\ result = << "left" >>

\* no tag qualifies, and two vertical tags qualify beside horizontal ones
C21_ScatteredReached ==
    op = "_find_primary_areas" /\ result = << "scattered" >>
C21_VerticalOnlyReached ==
    /\ op = "_find_primary_areas"
    /\ result = << "top", "bottom" >>
    /\ Qualifying(HorizontalTags) # {}

\* the fixed description of each tag
FixedDescription ==
    [top |-> "Upper portion", middle |-> "Middle section", bottom |-> "Lower portion",
     left |-> "Left side", center |-> "Center area", right |-> "Right side"]

\* C22: the regions are the fixed strings of the primary areas, in their
\* order, except that top and bottom together (with or without middle) give
\* ["Top and bottom edges"], left and right together give ["Left and right
\* sides"], and an empty list or ["scattered"] gives ["Throughout the image"]
C22_RegionDescriptions ==
    op = "_describe_regions" =>
        LET primary_areas == args.primary_areas
        IN  IF primary_areas = << >> \/ primary_areas = << "scattered" >>
            THEN result = << "Throughout the image" >>
            ELSE IF Contains(primary_areas, "top") /\ Contains(primary_areas, "bottom")
            THEN result = << "Top and bottom edges" >>
            ELSE IF Contains(primary_areas, "left") /\ Contains(primary_areas, "right")
            THEN result = << "Left and right sides" >>
            ELSE /\ Len(result) = Len(primary_areas)
                 /\ \A i \in 1..Len(result) :
                       result[i] = FixedDescription[primary_areas[i]]

\* top, middle and bottom are all primary and the list collapsed
C22_Witness ==
    /\ op = "_describe_regions"
    /\ args.primary_areas = << "top", "middle", "bottom" >>
    /\ result = << "Top and bottom edges" >>

\* the other cases of the description
C22_LeftRightReached ==
    /\ op = "_describe_regions"
    /\ args.primary_areas = << "left", "center", "right" >>
    /\ result = << "Left and right sides" >>
C22_EmptyReached ==
    op = "_describe_regions" /\ args.primary_areas = << >>
C22_ScatteredReached ==
    op = "_describe_regions" /\ args.primary_areas = << "scattered" >>
C22_MappedReached ==
    /\ op = "_describe_regions"
    /\ args.primary_areas = << "middle", "bottom" >>
    /\ result = << "Middle section", "Lower portion" >>

(***************************************************************************)
(* The channels of a dominant colour                                       *)
(***************************************************************************)
\* a doubled centre channel rounded to the nearest integer, halves upwards
RoundedChannel(channel2) == (channel2 + 1) \div 2

\* C23: each channel of a returned colour is the channel of a cluster centre
\* rounded to the nearest integer (n + 1 for a centre channel n + f with
\* f >= 0.5) and lies in 0..255
C23_ChannelsRounded ==
    (IsExtract /\ result # << >>) =>
        \E cluster \in Permutations(1..args.num_colors) :
            \A j \in 1..Len(result) :
                \A channel \in 1..3 :
                    /\ result[j].rgb[channel] =
                           RoundedChannel(args.centers2[cluster[j]][channel])
                    /\ result[j].rgb[channel] \in 0..255

(***************************************************************************)
(* Location and percentage of a dominant colour                            *)
(***************************************************************************)
\* the pixels of the prepared image (1-based, row by row) nearest to centre c
PixelsOfCluster(c) ==
    { n \in 1..Len(ExtractPrepared.pixels) :
        NearestCenter(args.centers2, ExtractPrepared.pixels[n]) = c - 1 }

\* the sum of the three vertical coverage numerators of a location
VerticalCount(location_info) ==
    location_info.coverage["top"][1] + location_info.coverage["middle"][1]
        + location_info.coverage["bottom"][1]

\* C24: the location of a cluster is taken from the nearest-centre labels of
\* all pixels of the prepared image, also those the filter removed, and the
\* percentage from the fitted pixels only: a cluster without any pixel has
\* the location "Not found", every other cluster has coverages that are
\* shares of all its pixels, and a cluster with percentage > 0 never has the
\* location "Not found"
C24_LocationFromAllPixels ==
    (IsExtract /\ result # << >>) =>
        /\ \E cluster \in Permutations(1..args.num_colors) :
              \A j \in 1..Len(result) :
                  /\ result[j].rgb = CenterAsInt(args.centers2[cluster[j]])
                  /\ result[j].percentage[1] = 100 * FittedCount(cluster[j])
                  /\ IF PixelsOfCluster(cluster[j]) = {}
                     THEN result[j].location_info = NotFound
                     ELSE /\ result[j].location_info.regions # << "Not found" >>
                          /\ \A t \in VerticalTags \cup HorizontalTags :
                                result[j].location_info.coverage[t][2]
                                    = Cardinality(PixelsOfCluster(cluster[j]))
                          /\ VerticalCount(result[j].location_info)
                                 = 100 * Cardinality(PixelsOfCluster(cluster[j]))
        /\ \A j \in 1..Len(result) :
              PctGreater(result[j].percentage, 0) =>
                  result[j].location_info.regions # << "Not found" >>

\* the location of the first colour counts more pixels than its percentage:
\* a pixel the filter removed is nearest to its centre
C24_Witness ==
    /\ IsExtract
    /\ result # << >>
    /\ Len(ExtractFitPixels) < Len(ExtractPrepared.pixels)
    /\ PctGreater(result[1].percentage, 0)
    /\ result[1].location_info.coverage["top"][2] * 100 > result[1].percentage[1]

\* a colour that no pixel carries
C24_NotFoundReached ==
    /\ IsExtract
    /\ \E j \in 1..Len(result) : result[j].location_info = NotFound

(***************************************************************************)
(* The coverages of a non-empty cluster                                    *)
(***************************************************************************)
\* the sum of the three horizontal coverage numerators of a location
HorizontalCount(location_info) ==
    location_info.coverage["left"][1] + location_info.coverage["center"][1]
        + location_info.coverage["right"][1]

\* C25: for a non-empty cluster top + middle + bottom = 100 and left +
\* center + right = 100, so a vertical tag is above 20 and primary_areas is a
\* non-empty list of vertical tags: neither a horizontal tag nor "scattered"
\* is in it, and the regions are neither "Left and right sides" nor
\* "Throughout the image"
C25_VerticalTagsAlwaysQualify ==
    AnalysedCluster =>
        /\ \A t \in VerticalTags \cup HorizontalTags :
              result.coverage[t][2] = Cardinality(ClusterPixels)
        /\ VerticalCount(result) = 100 * Cardinality(ClusterPixels)
        /\ HorizontalCount(result) = 100 * Cardinality(ClusterPixels)
        /\ \E t \in VerticalTags : PctGreater(result.coverage[t], 20)
        /\ result.primary_areas # << >>
        /\ \A i \in 1..Len(result.primary_areas) :
              result.primary_areas[i] \in VerticalTags
        /\ result.regions \notin { << "Left and right sides" >>,
                                   << "Throughout the image" >> }

\* a cluster with more than 20 percent of its pixels in the left and in the
\* right third, which a dictionary handed to _find_primary_areas alone would
\* need no vertical tag to describe
C25_Witness ==
    /\ AnalysedCluster
    /\ PctGreater(result.coverage["left"], 20)
    /\ PctGreater(result.coverage["right"], 20)
    /\ PctAtMost(result.coverage["middle"], 20)
    /\ result.primary_areas = << "top", "bottom" >>

(***************************************************************************)
(* The order of the saves of a request                                     *)
(***************************************************************************)
\* the positions of a call in the calls of the request
PositionsOf(name) == { i \in 1..Len(calls) : calls[i] = name }

\* C26: the saves of a request come in the order image, analysis, matches;
\* save_color_analysis is only called with the id of the saved image and
\* save_pencil_matches only with the id of the saved analysis, so every
\* analysis row belongs to an image row and every match row to an analysis row
C26_SavesInOrderWithIds ==
    /\ \A i \in PositionsOf("save_image_upload"), j \in PositionsOf("save_color_analysis") :
          i < j
    /\ \A i \in PositionsOf("save_color_analysis"), j \in PositionsOf("save_pencil_matches") :
          i < j
    /\ Called("save_color_analysis") =>
          /\ Called("save_image_upload")
          /\ image_id # << >>
          /\ \E r \in 1..Len(db.images) : db.images[r].id = image_id[1]
    /\ Called("save_pencil_matches") =>
          /\ Called("save_color_analysis")
          /\ analysis_id # << >>
          /\ \E r \in 1..Len(db.analyses) : db.analyses[r].id = analysis_id[1]
    /\ \A a \in 1..Len(db.analyses) :
          \E r \in 1..Len(db.images) : db.images[r].id = db.analyses[a].image_id
    /\ \A m \in 1..Len(db.matches) :
          \E a \in 1..Len(db.analyses) : db.analyses[a].id = db.matches[m].analysis_id

\* a request in which all three saves were made and wrote their rows
C26_Witness ==
    /\ pc = "done"
    /\ Called("save_pencil_matches")
    /\ db.images # << >>
    /\ db.analyses # << >>
    /\ db.matches # << >>

\* requests that went on to the matching without the later saves: the image
\* could not be saved, or the analysis could not
C26_NoAnalysisSaveReached ==
    /\ Matched
    /\ all_matches # << >>
    /\ Called("save_image_upload")
    /\ ~Called("save_color_analysis")
    /\ pc = "done"
C26_NoMatchesSaveReached ==
    /\ Called("save_color_analysis")
    /\ ~Called("save_pencil_matches")
    /\ all_matches # << >>
    /\ pc = "done"

(***************************************************************************)
(* DatabaseManager.create_user_session, called by several users at once    *)
(*                                                                         *)
(* db.sessions is the table user_sessions and db.now the reading of        *)
(* datetime.utcnow(); args[c] is the call caller c is in: its session_id,  *)
(* the row its query found and the statement it is at; result[c] is what   *)
(* its last call returned.                                                 *)
(***************************************************************************)
Callers == 1..MaxCallers

\* app.py line 30: an md5 of the time of the first page load, which two users
\* loading the page at the same time share
SessionIds == { "session-1", "session-2" }

NoCall == [session_id |-> "", existing_session |-> None, at |-> "idle"]

SessionInit ==
    /\ catalog = PencilDatabase({}, 0)
    /\ image = NoImage
    /\ op = "init"
    /\ args = [c \in Callers |-> NoCall]
    /\ result = [c \in Callers |-> None]
    /\ raised = FALSE
    /\ pc = "idle"
    /\ num_colors_requested = 0
    /\ image_id = << >>
    /\ analysis_id = << >>
    /\ dominant_colors = << >>
    /\ all_matches = << >>
    /\ db = [sessions |-> << >>, images |-> << >>, analyses |-> << >>,
             matches |-> << >>, now |-> 0]
    /\ calls = << >>

SessionUnchanged ==
    UNCHANGED <<catalog, image, op, raised, pc, num_colors_requested, image_id,
                analysis_id, dominant_colors, all_matches, calls>>

\* line 87: a caller enters create_user_session(session_id)
BeginCreateSession(c) ==
    /\ args[c].at \in { "idle", "returned", "raised" }
    /\ \E session_id \in SessionIds :
          args' = [args EXCEPT ![c] = [session_id |-> session_id,
                                       existing_session |-> None,
                                       at |-> "query"]]
    /\ UNCHANGED <<db, result>>
    /\ SessionUnchanged

\* the rows of the table with the session id
RowsOfSession(sessions, session_id) ==
    SelectSeq(sessions, LAMBDA r : r.session_id = session_id)

\* line 90: query(UserSession).filter(session_id == session_id).first()
QuerySession(c) ==
    /\ args[c].at = "query"
    /\ LET found == RowsOfSession(db.sessions, args[c].session_id)
       IN  args' = [args EXCEPT ![c].existing_session =
                                    IF found = << >> THEN None ELSE found[1],
                                ![c].at = IF found = << >> THEN "insert" ELSE "update"]
    /\ UNCHANGED <<db, result>>
    /\ SessionUnchanged

\* lines 94-98: UPDATE ... SET last_activity = utcnow() WHERE session_id = ...,
\* commit, return existing_session.id; a commit that fails raises
UpdateSession(c) ==
    /\ args[c].at = "update"
    /\ \/ /\ db.now < MaxClock
          /\ db' = [db EXCEPT !.sessions =
                        [i \in 1..Len(@) |->
                            IF @[i].session_id = args[c].session_id
                            THEN [@[i] EXCEPT !.last_activity = db.now + 1]
                            ELSE @[i]],
                              !.now = @ + 1]
          /\ result' = [result EXCEPT ![c] = args[c].existing_session.id]
          /\ args' = [args EXCEPT ![c].at = "returned"]
       \/ /\ args' = [args EXCEPT ![c].at = "raised"]
          /\ UNCHANGED <<db, result>>
    /\ SessionUnchanged

\* faulty variant: the column session_id is not unique
NoUniqueConstraint(sessions, session_id) == FALSE

\* line 16: session_id = Column(String(255), unique=True, nullable=False)
UniqueViolation(sessions, session_id) ==
    RowsOfSession(sessions, session_id) # << >>

\* lines 101-104: add a UserSession(session_id), commit, return its id; the
\* commit raises when a row with the session id is there by now, and may
\* fail for other reasons
InsertSession(c) ==
    /\ args[c].at = "insert"
    /\ \/ /\ ~UniqueViolation(db.sessions, args[c].session_id)
          /\ db.now < MaxClock
          /\ db' = [db EXCEPT !.sessions =
                        Append(@, [id |-> NextId(@),
                                   session_id |-> args[c].session_id,
                                   created_at |-> db.now + 1,
                                   last_activity |-> db.now + 1]),
                              !.now = @ + 1]
          /\ result' = [result EXCEPT ![c] = NextId(db.sessions)]
          /\ args' = [args EXCEPT ![c].at = "returned"]
       \/ /\ args' = [args EXCEPT ![c].at = "raised"]
          /\ UNCHANGED <<db, result>>
    /\ SessionUnchanged

SessionNext ==
    \E c \in Callers :
        \/ BeginCreateSession(c)
        \/ QuerySession(c)
        \/ UpdateSession(c)
        \/ InsertSession(c)

SessionSpec == SessionInit /\ [][SessionNext]_vars

\* no two rows of the table carry the same session id
OnePerSession(sessions) ==
    \A i, j \in 1..Len(sessions) :
        i # j => sessions[i].session_id # sessions[j].session_id

\* caller c returns from a call whose query found the row of its session id
ReturnsForExisting(c) ==
    /\ args[c].at = "update"
    /\ args'[c].at = "returned"

\* C27: after any create_user_session calls, interleaved or not, the table
\* holds at most one row per session id; a call for an existing session id
\* returns the id of the existing row and changes only its last_activity;
\* no call changes the id, the session id or created_at of a row or any
\* field of the row of another session, and no row goes away
C27_OneRowPerSession ==
    [][/\ OnePerSession(db.sessions')
       /\ Len(db.sessions') >= Len(db.sessions)
       /\ \A i \in 1..Len(db.sessions) :
             /\ db.sessions'[i].id = db.sessions[i].id
             /\ db.sessions'[i].session_id = db.sessions[i].session_id
             /\ db.sessions'[i].created_at = db.sessions[i].created_at
       /\ \A c \in Callers :
             ReturnsForExisting(c) =>
                 /\ Len(db.sessions') = Len(db.sessions)
                 /\ \E i \in 1..Len(db.sessions) :
                       /\ db.sessions[i].session_id = args[c].session_id
                       /\ result'[c] = db.sessions[i].id
                       /\ db.sessions'[i].last_activity = db.now'
                 /\ \A i \in 1..Len(db.sessions) :
                       db.sessions[i].session_id # args[c].session_id =>
                           db.sessions'[i] = db.sessions[i]]_vars

\* two calls for the same session id whose queries both found no row: one
\* added the row and returned, the other raised at its commit
C27_Witness ==
    \E c, d \in Callers :
        /\ c # d
        /\ args[c].session_id = args[d].session_id
        /\ args[c].existing_session = None
        /\ args[d].existing_session = None
        /\ args[c].at = "returned"
        /\ args[d].at = "raised"
        /\ Len(RowsOfSession(db.sessions, args[c].session_id)) = 1

\* a call that found the row of its session and moved its last_activity,
\* beside the row of another session
C27_UpdateReached ==
    /\ Len(db.sessions) = 2
    /\ \E c \in Callers :
          /\ args[c].at = "returned"
          /\ args[c].existing_session # None
          /\ \E i \in 1..Len(db.sessions) :
                /\ db.sessions[i].id = result[c]
                /\ db.sessions[i].last_activity > db.sessions[i].created_at

(***************************************************************************)
(* save_pencil_matches called with lists that may hold a match the loop    *)
(* cannot process                                                          *)
(***************************************************************************)
\* the most rows the pencil_matches table holds
MaxSaved == 3

\* the longest list handed to one call
MaxBatch == 2

AnalysisIds == { 1, 2 }

\* two matches the loop can process and one without the key
\* 'color_difference', for which match['color_difference'] raises
GoodMatches ==
    { [brand |-> "Faber-Castell", name |-> "Deep Red", code |-> "FC223",
       target_rgb |-> <<220, 20, 60>>, pencil_rgb |-> <<218, 24, 58>>,
       color_difference |-> 250],
      [brand |-> "Prismacolor", name |-> "Navy Blue", code |-> "PC901",
       target_rgb |-> <<0, 0, 128>>, pencil_rgb |-> <<10, 20, 90>>,
       color_difference |-> 1200] }

BadMatch ==
    [brand |-> "Prismacolor", name |-> "Navy Blue", code |-> "PC901",
     target_rgb |-> <<0, 0, 128>>, pencil_rgb |-> <<10, 20, 90>>]

MatchLists ==
    UNION { [1..n -> GoodMatches \cup {BadMatch}] : n \in 0..MaxBatch }

\* float(match['color_difference']) raises
Raises(match) == "color_difference" \notin DOMAIN match

\* the index of the first match of the list the loop cannot process, 0 if
\* there is none
FirstRaising(matches) ==
    IF \E i \in 1..Len(matches) : Raises(matches[i])
    THEN CHOOSE i \in 1..Len(matches) :
             /\ Raises(matches[i])
             /\ \A j \in 1..(i - 1) : ~Raises(matches[j])
    ELSE 0

\* faulty variant: every processed match is committed on its own, so the
\* matches before the raising one stay
PersistedCommitEach(matches) ==
    IF FirstRaising(matches) = 0 THEN matches
    ELSE SubSeq(matches, 1, FirstRaising(matches) - 1)

\* the matches of the list that are in the table after the call: the rows are
\* only added to the session (autoflush is off) and the one commit follows
\* the loop, so a raise in the loop leaves none
Persisted(matches) ==
    IF FirstRaising(matches) = 0 THEN matches ELSE << >>

MatchSaveInit ==
    /\ catalog = << >>
    /\ image = << >>
    /\ op = "init"
    /\ args = << >>
    /\ result = None
    /\ raised = FALSE
    /\ pc = "idle"
    /\ num_colors_requested = 0
    /\ image_id = << >>
    /\ analysis_id = << >>
    /\ dominant_colors = << >>
    /\ all_matches = << >>
    /\ db = [images |-> << >>, analyses |-> << >>, matches |-> << >>]
    /\ calls = << >>

\* save_pencil_matches(analysis_id, session_id, matches); the commit itself
\* may fail, which leaves the table as it was
CallSavePencilMatches ==
    \E an_id \in AnalysisIds, session_id \in SessionIds, matches \in MatchLists :
        /\ Len(db.matches) + Len(matches) <= MaxSaved
        /\ op' = "save_pencil_matches"
        /\ args' = [analysis_id |-> an_id, session_id |-> session_id,
                    matches |-> matches]
        /\ result' = None
        /\ \/ /\ db' = save_pencil_matches(db, an_id, session_id, Persisted(matches))
              /\ raised' = (FirstRaising(matches) # 0)
           \/ /\ FirstRaising(matches) = 0
              /\ db' = db
              /\ raised' = TRUE
        /\ UNCHANGED <<catalog, image, pc, num_colors_requested, image_id,
                       analysis_id, dominant_colors, all_matches, calls>>

MatchSaveNext == CallSavePencilMatches

MatchSaveSpec == MatchSaveInit /\ [][MatchSaveNext]_vars

\* the tier database.py lines 174-183 give a difference
StoredTier(diff) ==
    CASE diff < 300 -> "Excellent"
      [] diff >= 300 /\ diff < 600 -> "Very Good"
      [] diff >= 600 /\ diff < 1200 -> "Good"
      [] diff >= 1200 /\ diff < 2500 -> "Acceptable"
      [] OTHER -> "Poor"

\* row r holds match m, saved for the analysis and session of the call
RowHolds(r, m, call) ==
    /\ r.analysis_id = call.analysis_id
    /\ r.session_id = call.session_id
    /\ r.brand = m.brand
    /\ r.pencil_name = m.name
    /\ r.pencil_code = m.code
    /\ r.target_rgb = m.target_rgb
    /\ r.pencil_rgb = m.pencil_rgb
    /\ r.color_difference = m.color_difference
    /\ r.match_quality = StoredTier(m.color_difference)

\* C28: a call of save_pencil_matches either adds one row for every match of
\* its list, with the analysis id and the session id of the call and the
\* tier of its difference, or adds no row and raises; it raises and adds
\* none when the loop cannot process one of the matches; the rows that were
\* in the table before the call are unchanged
C28_AllOrNothing ==
    [][LET before == db.matches
           after == db.matches'
           call == args'
           added == Len(after) - Len(before)
       IN  /\ Len(after) >= Len(before)
           /\ SubSeq(after, 1, Len(before)) = before
           /\ \/ /\ ~raised'
                 /\ added = Len(call.matches)
                 /\ \A i \in 1..added :
                       RowHolds(after[Len(before) + i], call.matches[i], call)
              \/ /\ raised'
                 /\ added = 0
           /\ (\E i \in 1..Len(call.matches) : call.matches[i] \notin GoodMatches)
                  => raised' /\ added = 0]_vars

\* a call whose second match cannot be processed raised, beside the rows of
\* an earlier call
C28_Witness ==
    /\ op = "save_pencil_matches"
    /\ raised
    /\ Len(args.matches) = 2
    /\ args.matches[1] \in GoodMatches
    /\ args.matches[2] \notin GoodMatches
    /\ db.matches # << >>

\* a call that stored both matches of its list
C28_AllSavedReached ==
    /\ op = "save_pencil_matches"
    /\ ~raised
    /\ Len(args.matches) = 2
    /\ Len(db.matches) >= 2
    /\ db.matches[Len(db.matches) - 1].match_quality # db.matches[Len(db.matches)].match_quality

\* a call whose commit failed
C28_CommitFailedReached ==
    /\ op = "save_pencil_matches"
    /\ raised
    /\ args.matches # << >>
    /\ \A i \in 1..Len(args.matches) : args.matches[i] \in GoodMatches

(***************************************************************************)
(* cleanup_old_data on stores the saves can leave behind                   *)
(***************************************************************************)
\* the most rows of each of image_uploads, color_analysis and pencil_matches
MaxRows == 2

\* the session ids rows carry: those of the sessions and one whose
\* create_user_session call raised, so that it has no user_sessions row
RowSessionIds == SessionIds \cup { "session-3" }

\* the user_sessions tables: each session id absent or present once, with
\* any last_activity up to the present
SessionTables ==
    { SelectSeq(<< [id |-> 1, session_id |-> "session-1", created_at |-> 0,
                    last_activity |-> a[1]],
                   [id |-> 2, session_id |-> "session-2", created_at |-> 0,
                    last_activity |-> a[2]] >>,
                LAMBDA r : r.last_activity >= 0) :
        a \in [1..2 -> -1..MaxClock] }

\* how far a request of main() got: the image saved, the analysis saved
\* too, the matches saved too
Stages == { "image", "analysis", "matches" }

\* the requests behind a store: the session id and the stage of each
Uploads ==
    UNION { [1..n -> RowSessionIds \X Stages] : n \in 0..MaxRows }

\* the rows the requests that reached one of the stages left in a table,
\* ids in insertion order
TableOf(uploads, stages) ==
    LET reached == SelectSeq(uploads, LAMBDA u : u[2] \in stages)
    IN  [i \in 1..Len(reached) |-> [id |-> i, session_id |-> reached[i][1]]]

CleanupInit ==
    /\ catalog = << >>
    /\ image = << >>
    /\ op = "init"
    /\ args = << >>
    /\ result = None
    /\ raised = FALSE
    /\ pc = "idle"
    /\ num_colors_requested = 0
    /\ image_id = << >>
    /\ analysis_id = << >>
    /\ dominant_colors = << >>
    /\ all_matches = << >>
    /\ \E sessions \in SessionTables, uploads \in Uploads :
          db = [sessions |-> sessions,
                images |-> TableOf(uploads, Stages),
                analyses |-> TableOf(uploads, { "analysis", "matches" }),
                matches |-> TableOf(uploads, { "matches" }),
                now |-> MaxClock]
    /\ calls = << >>

\* faulty variant: a session last active exactly at the cutoff is old too
IsOldInclusive(row, cutoff_date) == row.last_activity <= cutoff_date

\* UserSession.last_activity < cutoff_date
IsOld(row, cutoff_date) == row.last_activity < cutoff_date

\* session_ids = [s.session_id for s in old_sessions]
old_session_ids(d, days_old) ==
    LET old_sessions == SelectSeq(d.sessions, LAMBDA r : IsOld(r, d.now - days_old))
    IN  [i \in 1..Len(old_sessions) |-> old_sessions[i].session_id]

\* query(...).filter(session_id.in_(session_ids)).delete()
DeleteIn(table, session_ids) ==
    SelectSeq(table, LAMBDA r :
        \A i \in 1..Len(session_ids) : r.session_id # session_ids[i])

\* the store after cleanup_old_data(days_old) has committed
cleanup_old_data(d, days_old) ==
    LET session_ids == old_session_ids(d, days_old)
    IN  [d EXCEPT !.matches = DeleteIn(@, session_ids),
                  !.analyses = DeleteIn(@, session_ids),
                  !.images = DeleteIn(@, session_ids),
                  !.sessions = DeleteIn(@, session_ids)]

\* cleanup_old_data(days_old): returns 0 without a commit when no session is
\* old; otherwise the commit may fail, which leaves the store as it was
CallCleanup ==
    \E days_old \in 0..MaxClock :
        /\ op' = "cleanup_old_data"
        /\ args' = [days_old |-> days_old]
        /\ IF old_session_ids(db, days_old) = << >>
           THEN /\ result' = 0
                /\ raised' = FALSE
                /\ db' = db
           ELSE \/ /\ db' = cleanup_old_data(db, days_old)
                   /\ result' = Len(old_session_ids(db, days_old))
                   /\ raised' = FALSE
                \/ /\ db' = db
                   /\ result' = None
                   /\ raised' = TRUE
        /\ UNCHANGED <<catalog, image, pc, num_colors_requested, image_id,
                       analysis_id, dominant_colors, all_matches, calls>>

CleanupNext == CallCleanup

CleanupSpec == CleanupInit /\ [][CleanupNext]_vars

\* the session ids of the user_sessions rows of store d that were last
\* active more than days before the present
RemovedIds(d, days) ==
    { d.sessions[i].session_id : i \in
        { j \in 1..Len(d.sessions) : d.sessions[j].last_activity + days < d.now } }

\* the rows of a table whose session id is none of ids, in their order
Kept(table, ids) == SelectSeq(table, LAMBDA r : r.session_id \notin ids)

\* no row of the table carries one of ids
NoneOf(table, ids) == \A i \in 1..Len(table) : table[i].session_id \notin ids

\* C29: a call of cleanup_old_data(days) that returns has removed exactly
\* the user_sessions rows last active before the cutoff and every row of the
\* three other tables with one of their session ids, returns the number of
\* removed sessions and leaves every other row as it was; afterwards no row
\* of any table carries a removed session id
C29_CleanupRemovesOldSessions ==
    [][(op' = "cleanup_old_data" /\ ~raised') =>
          LET removed == RemovedIds(db, args'.days_old)
          IN  /\ db'.sessions = Kept(db.sessions, removed)
              /\ db'.images = Kept(db.images, removed)
              /\ db'.analyses = Kept(db.analyses, removed)
              /\ db'.matches = Kept(db.matches, removed)
              /\ result' = Cardinality(removed)
              /\ NoneOf(db'.sessions, removed)
              /\ NoneOf(db'.images, removed)
              /\ NoneOf(db'.analyses, removed)
              /\ NoneOf(db'.matches, removed)]_vars

\* a call that removed one session with the first image row and kept the
\* other session, last active exactly at the cutoff, with its rows
C29_Witness ==
    /\ op = "cleanup_old_data"
    /\ ~raised
    /\ result = 1
    /\ Len(db.sessions) = 1
    /\ db.sessions[1].last_activity = db.now - args.days_old
    /\ Len(db.images) = 1
    /\ db.images[1].id = 2
    /\ db.images[1].session_id = db.sessions[1].session_id
    /\ db.analyses # << >>
    /\ db.matches # << >>

\* a call that found no old session
C29_NothingOldReached ==
    /\ op = "cleanup_old_data"
    /\ ~raised
    /\ result = 0
    /\ Len(db.sessions) = 2

\* a call that removed both sessions and left the rows of the session id
\* without a user_sessions row
C29_OrphanRowsKeptReached ==
    /\ op = "cleanup_old_data"
    /\ ~raised
    /\ result = 2
    /\ db.sessions = << >>
    /\ db.images # << >>
    /\ \A i \in 1..Len(db.images) : db.images[i].session_id = "session-3"

(***************************************************************************)
(* Saves of several sessions and get_user_history                          *)
(***************************************************************************)
\* the most rows of image_uploads, of color_analysis and of pencil_matches
MaxImages == 1
MaxAnalyses == 2
MaxMatchRows == 1

\* limit=10
DefaultLimit == 10

\* the limits of the calls: one that cuts the list and the default
Limits == { 1, DefaultLimit }

\* what the saves of the model store
HistoryImage == [mode |-> "RGB", size |-> <<2, 1>>, pixels |-> << >>, readable |-> TRUE]
HistoryMatch == CHOOSE m \in GoodMatches : m.color_difference = 250

HistoryInit ==
    /\ catalog = << >>
    /\ image = << >>
    /\ op = "init"
    /\ args = << >>
    /\ result = << >>
    /\ raised = FALSE
    /\ pc = "idle"
    /\ num_colors_requested = SliderMin
    /\ image_id = << >>
    /\ analysis_id = << >>
    /\ dominant_colors = << >>
    /\ all_matches = << >>
    /\ db = [images |-> << >>, analyses |-> << >>, matches |-> << >>, now |-> 0]
    /\ calls = << >>

HistoryUnchanged ==
    UNCHANGED <<catalog, image, raised, pc, num_colors_requested, image_id,
                analysis_id, dominant_colors, all_matches, calls>>

\* a save leaves no call result behind
AfterSaveCall ==
    /\ op' = "save"
    /\ args' = << >>
    /\ result' = << >>

\* save_image_upload(session_id, ...)
HistorySaveImage ==
    \E session_id \in SessionIds :
        /\ Len(db.images) < MaxImages
        /\ db' = save_image_upload(db, session_id, HistoryImage)
        /\ AfterSaveCall
        /\ HistoryUnchanged

\* save_color_analysis(image_id, session_id, ...) with the id of a stored
\* image; analysis_time is utcnow() at the insert, which may be the time of
\* the save before
HistorySaveAnalysis ==
    \E session_id \in SessionIds, img_id \in 1..Len(db.images),
       analysis_time \in { db.now, db.now + 1 } :
        /\ Len(db.analyses) < MaxAnalyses
        /\ LET saved == save_color_analysis(db, img_id, session_id,
                                            num_colors_requested, << >>)
               row == saved.analyses[Len(saved.analyses)]
           IN  db' = [saved EXCEPT
                         !.analyses[Len(saved.analyses)] =
                             [id |-> row.id, image_id |-> row.image_id,
                              session_id |-> row.session_id,
                              num_colors_requested |-> row.num_colors_requested,
                              colors_extracted |-> row.colors_extracted,
                              analysis_time |-> analysis_time],
                         !.now = analysis_time]
        /\ AfterSaveCall
        /\ HistoryUnchanged

\* save_pencil_matches(analysis_id, session_id, matches) with the id of a
\* stored analysis
HistorySaveMatches ==
    \E session_id \in SessionIds, an_id \in 1..Len(db.analyses) :
        /\ Len(db.matches) < MaxMatchRows
        /\ db' = save_pencil_matches(db, an_id, session_id, <<HistoryMatch>>)
        /\ AfterSaveCall
        /\ HistoryUnchanged

\* the analyses of the session that join an image row (lines 211-224)
JoinedAnalyses(d, session_id) ==
    SelectSeq(d.analyses, LAMBDA a :
        /\ a.session_id = session_id
        /\ \E i \in 1..Len(d.images) : d.images[i].id = a.image_id)

\* the orders ORDER BY analysis_time DESC can give the rows: equal times may
\* come in either order
DescendingOrders(rows) ==
    { p \in [1..Len(rows) -> 1..Len(rows)] :
        /\ \A i, j \in 1..Len(rows) : i # j => p[i] # p[j]
        /\ \A i, j \in 1..Len(rows) :
              i < j => rows[p[i]].analysis_time >= rows[p[j]].analysis_time }

\* db.query(PencilMatch).filter(PencilMatch.analysis_id == result.id).all()
MatchesOfAnalysis(d, an_id) ==
    SelectSeq(d.matches, LAMBDA m : m.analysis_id = an_id)

\* the dictionary of one analysis (lines 236-251)
HistoryEntry(d, a) ==
    LET img == CHOOSE r \in { d.images[i] : i \in 1..Len(d.images) } : r.id = a.image_id
        found == MatchesOfAnalysis(d, a.id)
    IN  [analysis_id |-> a.id,
         analysis_time |-> a.analysis_time,
         image_size |-> <<img.width, img.height>>,
         num_colors |-> a.num_colors_requested,
         colors_extracted |-> a.colors_extracted,
         num_matches |-> Len(found),
         matches |-> [i \in 1..Len(found) |->
                         [brand |-> found[i].brand,
                          name |-> found[i].pencil_name,
                          code |-> found[i].pencil_code,
                          color_difference |-> found[i].color_difference,
                          quality |-> found[i].match_quality]]]

\* the lists get_user_history(session_id, limit) can return on store d
get_user_history(d, session_id, limit) ==
    LET rows == JoinedAnalyses(d, session_id)
    IN  { [i \in 1..Min(limit, Len(rows)) |-> HistoryEntry(d, rows[p[i]])] :
            p \in DescendingOrders(rows) }

CallGetUserHistory ==
    \E session_id \in SessionIds, limit \in Limits :
        /\ op' = "get_user_history"
        /\ args' = [session_id |-> session_id, limit |-> limit]
        /\ result' \in get_user_history(db, session_id, limit)
        /\ db' = db
        /\ HistoryUnchanged

HistoryNext ==
    \/ HistorySaveImage
    \/ HistorySaveAnalysis
    \/ HistorySaveMatches
    \/ CallGetUserHistory

HistorySpec == HistoryInit /\ [][HistoryNext]_vars

\* the analysis row with the id
AnalysisWithId(d, an_id) ==
    CHOOSE a \in { d.analyses[i] : i \in 1..Len(d.analyses) } : a.id = an_id

\* the list h is a history of session s on store d under the limit: at most
\* limit analyses, each of session s and none twice, newest first, each with
\* the matches stored under its id
IsHistoryOf(h, d, s, limit) ==
    /\ Len(h) <= limit
    /\ \A i \in 1..Len(h) :
          /\ \E k \in 1..Len(d.analyses) : d.analyses[k].id = h[i].analysis_id
          /\ AnalysisWithId(d, h[i].analysis_id).session_id = s
          /\ h[i].num_matches = Len(h[i].matches)
          /\ h[i].num_matches =
                 Cardinality({ k \in 1..Len(d.matches) :
                                 d.matches[k].analysis_id = h[i].analysis_id })
          /\ \A k \in 1..Len(h[i].matches) :
                 /\ h[i].matches[k].code = HistoryMatch.code
                 /\ h[i].matches[k].quality = "Excellent"
    /\ \A i, j \in 1..Len(h) :
          i < j => /\ h[i].analysis_id # h[j].analysis_id
                   /\ h[i].analysis_time >= h[j].analysis_time
    /\ \A k \in 1..Len(d.analyses) :
          (d.analyses[k].session_id = s /\ Len(h) < limit)
              => \E i \in 1..Len(h) : h[i].analysis_id = d.analyses[k].id

\* the step stores a row under session id s
SavesUnder(s) ==
    \/ /\ Len(db.images') = Len(db.images) + 1
       /\ db.images'[Len(db.images')].session_id = s
    \/ /\ Len(db.analyses') = Len(db.analyses) + 1
       /\ db.analyses'[Len(db.analyses')].session_id = s
    \/ /\ Len(db.matches') = Len(db.matches) + 1
       /\ db.matches'[Len(db.matches')].session_id = s

\* what get_user_history lists: every returned list is a history of the
\* session of the call
HistoryListsOwnAnalyses ==
    op = "get_user_history" =>
        IsHistoryOf(result, db, args.session_id, args.limit)

\* C30: get_user_history(s, limit) returns at most limit analyses, all of
\* session s, newest first, each with the matches saved for it, and a save
\* of an image, an analysis or matches under another session id leaves what
\* get_user_history(s, limit) returns as it was
C30_HistoryIsolated ==
    [][/\ op' = "get_user_history" =>
             IsHistoryOf(result', db', args'.session_id, args'.limit)
       /\ \A s, other \in SessionIds :
             (other # s /\ SavesUnder(other)) =>
                 \A limit \in Limits :
                     get_user_history(db', s, limit) = get_user_history(db, s, limit)]_vars

\* a history cut by its limit: the newer of two analyses of the session
C30_LimitedHistoryReached ==
    /\ op = "get_user_history"
    /\ args.limit = 1
    /\ Len(result) = 1
    /\ Len(JoinedAnalyses(db, args.session_id)) = 2
    /\ result[1].analysis_id = 2
    /\ result[1].analysis_time > db.analyses[1].analysis_time

\* the history of a session lists a match that was saved under the other
\* session id
C30_ForeignMatchListed ==
    /\ op = "get_user_history"
    /\ \E i \in 1..Len(result) :
          /\ result[i].num_matches > 0
          /\ \A k \in 1..Len(db.matches) :
                db.matches[k].analysis_id = result[i].analysis_id
                    => db.matches[k].session_id # args.session_id

====
